---- MODULE Spec2Model ----
(***************************************************************************)
(* A model of node-dubtrack-api: the DubtrackAPI facade (event             *)
(* normalization and dispatch, pattern listeners, the authorization state  *)
(* and the HTTP request wrapper), the DubtrackEvents socket wrapper and    *)
(* the domain models they build.                                           *)
(*                                                                         *)
(* JavaScript objects live in a heap (a sequence of objects, an address    *)
(* is an index), so that aliasing between the normalized event, the typed  *)
(* objects built from it and its `raw` copy is part of the model.          *)
(***************************************************************************)
EXTENDS Integers, Sequences, FiniteSets, Bags, TLC

VARIABLES
    options,          \* this._options: [raw, onlyFirstMatch]
    regexpListeners,  \* this._regexpListeners: sequence of [regexp, listener]
    lastIndex,        \* lastIndex of every RegExp object
    exactListeners,   \* EventEmitter registrations: sequence of [name, listener]
    heap,             \* the objects of the event being processed
    event,            \* address of the event handed to processEvents (0: none yet)
    received,         \* the event exactly as it was handed to processEvents
    calls,            \* listener invocations of the last processEvents, in order
    mutated,          \* a listener has mutated a promoted field since dispatch
    threw,            \* the last processEvents threw instead of returning
    removal,          \* the arguments and the list before of the last removal
    config,           \* this._options: [autoLogin, autoJoin, room]
    authorized,       \* this._authorized
    socket,           \* this._socket has been created
    connection,       \* state of the transport's connection
    pending,          \* HTTP requests in flight (a bag)
    attaching,        \* channel.attach callbacks not yet run (a bag)
    oneShot,          \* once('connected') handlers still registered
    catching,         \* rejections whose catch handler has not run yet
    channels,         \* names of the channels the transport knows, as created
    handlers,         \* the subscribe handlers of the channels (a bag of names)
    report,           \* what the last call, reply or callback did
    objects,          \* the objects of the model under construction or query
    subject,          \* the model object last constructed, and from what
    answer,           \* what the last query of the subject returned
    lookups,          \* resolutions of the subject waiting for their fetches
    fetches           \* api.getUser calls the subject has made

pipeline == << options, regexpListeners, lastIndex, exactListeners, heap,
               event, received, calls, mutated, threw, removal >>

session == << config, authorized, socket, connection, pending, attaching,
              oneShot, catching, channels, handlers, report >>

\* the elements of a sequence
Elements(seq) == {seq[i] : i \in DOMAIN seq}

\* names of the channels the transport knows
known == Elements(channels)

\* names of the channels with a subscribe handler
subscribed == BagToSet(handlers)

models == << objects, subject, answer, lookups, fetches >>

vars == << pipeline, session, models >>

-----------------------------------------------------------------------------
(* Strings whose contents the code inspects are sequences of characters.   *)

\* "chat-message"
S_chat_message ==
    << "c", "h", "a", "t", "-", "m", "e", "s", "s", "a", "g", "e" >>
\* "room_playlist-dub"
S_room_playlist_dub ==
    << "r", "o", "o", "m", "_", "p", "l", "a", "y", "l", "i", "s", "t", "-", "d", "u", "b" >>
\* "room_playlist-queue-update-dub"
S_room_playlist_queue_update_dub ==
    << "r", "o", "o", "m", "_", "p", "l", "a", "y", "l", "i", "s", "t", "-", "q", "u", "e", "u", "e", "-", "u", "p", "d", "a", "t", "e", "-", "d", "u", "b" >>
\* "delete-chat-message"
S_delete_chat_message ==
    << "d", "e", "l", "e", "t", "e", "-", "c", "h", "a", "t", "-", "m", "e", "s", "s", "a", "g", "e" >>
\* "user-update"
S_user_update ==
    << "u", "s", "e", "r", "-", "u", "p", "d", "a", "t", "e" >>
\* "user-join"
S_user_join ==
    << "u", "s", "e", "r", "-", "j", "o", "i", "n" >>
\* "user-leave"
S_user_leave ==
    << "u", "s", "e", "r", "-", "l", "e", "a", "v", "e" >>
\* "room_playlist-queue-update-grabs"
S_room_playlist_queue_update_grabs ==
    << "r", "o", "o", "m", "_", "p", "l", "a", "y", "l", "i", "s", "t", "-", "q", "u", "e", "u", "e", "-", "u", "p", "d", "a", "t", "e", "-", "g", "r", "a", "b", "s" >>
\* "user-pause-queue"
S_user_pause_queue ==
    << "u", "s", "e", "r", "-", "p", "a", "u", "s", "e", "-", "q", "u", "e", "u", "e" >>
\* "room_playlist-update"
S_room_playlist_update ==
    << "r", "o", "o", "m", "_", "p", "l", "a", "y", "l", "i", "s", "t", "-", "u", "p", "d", "a", "t", "e" >>
\* "user-ban"
S_user_ban ==
    << "u", "s", "e", "r", "-", "b", "a", "n" >>
\* "user_update"
S_user_update_us ==
    << "u", "s", "e", "r", "_", "u", "p", "d", "a", "t", "e" >>
\* "room:"
S_room_prefix ==
    << "r", "o", "o", "m", ":" >>
\* "user:"
S_user_prefix ==
    << "u", "s", "e", "r", ":" >>
\* "user"
S_user ==
    << "u", "s", "e", "r" >>
\* "user-update-123"
S_user_update_123 ==
    << "u", "s", "e", "r", "-", "u", "p", "d", "a", "t", "e", "-", "1", "2", "3" >>
\* "other-user-update"
S_other_user_update ==
    << "o", "t", "h", "e", "r", "-", "u", "s", "e", "r", "-", "u", "p", "d", "a", "t", "e" >>
\* "user_update_456"
S_user_update_us_456 ==
    << "u", "s", "e", "r", "_", "u", "p", "d", "a", "t", "e", "_", "4", "5", "6" >>
\* "user_update-user-update"
S_user_update_both ==
    << "u", "s", "e", "r", "_", "u", "p", "d", "a", "t", "e", "-", "u", "s", "e", "r", "-", "u", "p", "d", "a", "t", "e" >>
\* "room-update"
S_room_update ==
    << "r", "o", "o", "m", "-", "u", "p", "d", "a", "t", "e" >>
\* "presence"
S_presence ==
    << "p", "r", "e", "s", "e", "n", "c", "e" >>
\* "login"
S_login ==
    << "l", "o", "g", "i", "n" >>
\* "logout"
S_logout ==
    << "l", "o", "g", "o", "u", "t" >>
\* "error"
S_error ==
    << "e", "r", "r", "o", "r" >>
\* "update"
S_update ==
    << "u", "p", "d", "a", "t", "e" >>
\* "connected"
S_connected ==
    << "c", "o", "n", "n", "e", "c", "t", "e", "d" >>
\* String(undefined)
S_undefined ==
    << "u", "n", "d", "e", "f", "i", "n", "e", "d" >>
\* String(null)
S_null ==
    << "n", "u", "l", "l" >>
\* String(true)
S_true ==
    << "t", "r", "u", "e" >>
\* String(false)
S_false ==
    << "f", "a", "l", "s", "e" >>

-----------------------------------------------------------------------------
(* JavaScript values.  A value is a tagged record; objects are referred to *)
(* by address.                                                             *)

Undefined == [k |-> "undefined"]

Null == [k |-> "null"]

\* a string the code only stores and compares
Str(s) == [k |-> "string", s |-> s]

\* a string the code looks into (event types, channel names)
Chars(c) == [k |-> "chars", c |-> c]

Ref(a) == [k |-> "ref", a |-> a]

\* an array of scalars
Arr(items) == [k |-> "array", items |-> items]

\* new Date(v): a Date built from v; new Date(aDate) is a Date of the same time
NewDate(v) == IF v.k = "date" THEN v ELSE [k |-> "date", of |-> v]

\* ToBoolean(v) for the values of the model (no empty string, no number)
Truthy(v) == v.k \notin {"undefined", "null"} /\ v # [k |-> "string", s |-> ""]

\* typeof v == 'object'
TypeofObject(v) == v.k \in {"ref", "null", "date", "array"}

\* reading a property of v throws a TypeError
ThrowsOnRead(v) == v.k \in {"undefined", "null"}

\* h[a].name, undefined when the object has no such property
Get(h, a, name) ==
    IF name \in DOMAIN h[a].f THEN h[a].f[name] ELSE Undefined

\* v.name for any value v that is not undefined or null
Prop(h, v, name) == IF v.k = "ref" THEN Get(h, v.a, name) ELSE Undefined

\* h[a].name = v
SetField(h, a, name, v) ==
    [h EXCEPT ![a].f =
        [n \in DOMAIN h[a].f \cup {name} |->
            IF n = name THEN v ELSE h[a].f[n]]]

\* delete h[a].name
DeleteField(h, a, name) ==
    [h EXCEPT ![a].f = [n \in DOMAIN h[a].f \ {name} |-> h[a].f[n]]]

\* a fresh object appended to the heap; its address is Len(h) + 1
NewObject(h, cls, fields) == Append(h, [f |-> fields, cls |-> cls])

\* the own enumerable property names of v, as `for (name in v)` visits them
Keys(h, v) == IF v.k = "ref" THEN DOMAIN h[v.a].f ELSE {}

RECURSIVE DeepValue(_, _)
\* the value v stands for, with every object it reaches written out: two
\* values are deep-equal exactly when their DeepValue is the same
DeepValue(h, v) ==
    IF v.k = "ref"
    THEN [k |-> "object",
          f |-> [n \in DOMAIN h[v.a].f |-> DeepValue(h, h[v.a].f[n])],
          cls |-> h[v.a].cls]
    ELSE v

RECURSIVE AllocTree(_, _), AllocFields(_, _, _, _)
\* the heap and value obtained by building the written-out value t on heap h
\* (what parsing a received message produces)
AllocTree(h, t) ==
    IF t.k # "object" THEN [h |-> h, v |-> t]
    ELSE [h |-> AllocFields(NewObject(h, t.cls, << >>), Len(h) + 1, t,
                            DOMAIN t.f),
          v |-> Ref(Len(h) + 1)]

\* the fields `todo` of t built into the object at address a
AllocFields(h, a, t, todo) ==
    IF todo = {} THEN h
    ELSE LET n == CHOOSE x \in todo : TRUE
             r == AllocTree(h, t.f[n])
         IN  AllocFields(SetField(r.h, a, n, r.v), a, t, todo \ {n})

-----------------------------------------------------------------------------
(* lodash                                                                  *)

\* lodash.clone(value): a new object with the same property values
clone(h, v) ==
    IF v.k # "ref" THEN [h |-> h, v |-> v]
    ELSE [h |-> NewObject(h, h[v.a].cls, h[v.a].f), v |-> Ref(Len(h) + 1)]

\* the copy of one object: the heap after its properties, the copy, the stack
Copied(r, to) == [h |-> r.h, v |-> Ref(to), stack |-> r.stack]

RECURSIVE copyOnce(_, _, _), cloneFields(_, _, _, _, _), afterField(_, _, _, _, _)
\* lodash.cloneDeep keeps a stack of the objects it has copied: an object met
\* a second time is given the copy made the first time, so what the original
\* shares between two properties the copy shares too
copyOnce(h, v, stack) ==
    IF v.k # "ref" THEN [h |-> h, v |-> v, stack |-> stack]
    ELSE IF v.a \in DOMAIN stack
    THEN [h |-> h, v |-> Ref(stack[v.a]), stack |-> stack]
    ELSE Copied(cloneFields(NewObject(h, h[v.a].cls, << >>), v.a, Len(h) + 1,
                            DOMAIN h[v.a].f, stack @@ (v.a :> Len(h) + 1)),
                Len(h) + 1)
cloneFields(h, from, to, todo, stack) ==
    IF todo = {} THEN [h |-> h, stack |-> stack]
    ELSE afterField(copyOnce(h, h[from].f[CHOOSE x \in todo : TRUE], stack),
                    from, to, todo, CHOOSE x \in todo : TRUE)
afterField(r, from, to, todo, n) ==
    cloneFields(SetField(r.h, to, n, r.v), from, to, todo \ {n}, r.stack)

\* lodash.cloneDeep(value): a copy that shares no object with the original
cloneDeep(h, v) ==
    LET copy == copyOnce(h, v, << >>) IN [h |-> copy.h, v |-> copy.v]

\* lodash.findIndex, given what the predicate returns for each element:
\* 0-based, -1 when nothing satisfies it
findIndex(verdicts) ==
    IF \E i \in 1..Len(verdicts) : verdicts[i]
    THEN (CHOOSE i \in 1..Len(verdicts) :
             verdicts[i] /\ \A j \in 1..(i - 1) : ~verdicts[j]) - 1
    ELSE -1

\* array.splice(index, 1), index 0-based
splice1(array, index) ==
    [i \in 1..(Len(array) - 1) |->
        IF i <= index THEN array[i] ELSE array[i + 1]]

-----------------------------------------------------------------------------
(* utils                                                                   *)

\* copyWithout(from, to, excluded): to[name] = from[name] for every property
\* name of `from` that is not in `excluded`
copyWithout(h, from, to, excluded) ==
    LET copied == Keys(h, from) \ excluded
    IN  [h EXCEPT ![to].f =
            [n \in DOMAIN h[to].f \cup copied |->
                IF n \in copied THEN h[from.a].f[n] ELSE h[to].f[n]]]

-----------------------------------------------------------------------------
(* common/roles: the role table, keyed by role identifier                  *)

RoleCoOwner ==
    [id |-> Str("5615fa9ae596154a5c000000"), type |-> Str("co-owner"),
     name |-> Str("Co-owner"),
     rights |-> Arr(<< "update-room", "set-roles", "set-managers", "skip",
                       "queue-order", "kick", "ban", "mute", "set-dj",
                       "lock-queue", "delete-chat", "chat-mention" >>)]

RoleManager ==
    [id |-> Str("5615fd84e596150061000003"), type |-> Str("manager"),
     name |-> Str("Manager"),
     rights |-> Arr(<< "set-roles", "skip", "queue-order", "kick", "ban",
                       "mute", "set-dj", "lock-queue", "delete-chat",
                       "chat-mention" >>)]

RoleMod ==
    [id |-> Str("52d1ce33c38a06510c000001"), type |-> Str("mod"),
     name |-> Str("Moderator"),
     rights |-> Arr(<< "skip", "queue-order", "kick", "ban", "mute",
                       "lock-queue", "delete-chat", "chat-mention" >>)]

RoleVip ==
    [id |-> Str("5615fe1ee596154fc2000001"), type |-> Str("vip"),
     name |-> Str("Vip"), rights |-> Arr(<< "skip" >>)]

RoleResidentDj ==
    [id |-> Str("5615feb8e596154fc2000002"), type |-> Str("resident-dj"),
     name |-> Str("Resident DJ"), rights |-> Arr(<< >>)]

RoleDj ==
    [id |-> Str("564435423f6ba174d2000001"), type |-> Str("dj"),
     name |-> Str("DJ"), rights |-> Arr(<< >>)]

RoleUser ==
    [id |-> Null, type |-> Str("user"), name |-> Str("User"),
     rights |-> Arr(<< >>)]

\* the table; roles[null] is stored under the property name "null"
roles ==
    [key \in {"5615fa9ae596154a5c000000", "5615fd84e596150061000003",
              "52d1ce33c38a06510c000001", "5615fe1ee596154fc2000001",
              "resident-dj", "5615feb8e596154fc2000002",
              "564435423f6ba174d2000001", "null"} |->
        CASE key = "5615fa9ae596154a5c000000" -> RoleCoOwner
          [] key = "5615fd84e596150061000003" -> RoleManager
          [] key = "52d1ce33c38a06510c000001" -> RoleMod
          [] key = "5615fe1ee596154fc2000001" -> RoleVip
          [] key \in {"resident-dj", "5615feb8e596154fc2000002"} -> RoleResidentDj
          [] key = "564435423f6ba174d2000001" -> RoleDj
          [] OTHER -> RoleUser]

\* the property name a value is converted to when it indexes an object
PropertyKey(v) ==
    CASE v.k = "string" -> v.s
      [] v.k = "null" -> "null"
      [] OTHER -> "undefined"

-----------------------------------------------------------------------------
(* models.  A constructor returns the heap, the new object and whether it  *)
(* threw (a TypeError on reading a property of undefined or null).         *)

Built(h, v) == [h |-> h, v |-> v, threw |-> FALSE]

Threw(h) == [h |-> h, v |-> Undefined, threw |-> TRUE]

UserExcluded ==
    {"_id", "status", "roleid", "dubs", "created", "userInfo",
     "_force_updated", "__v"}

\* new models.User(userObject)
NewUser(h, userObject) ==
    IF ThrowsOnRead(userObject) THEN Threw(h)
    ELSE LET a == Len(h) + 1
             forced == Prop(h, userObject, "_force_updated")
             typed == [n \in {"id", "created", "lastLogin"} |->
                 CASE n = "id" -> Prop(h, userObject, "_id")
                   [] n = "created" -> NewDate(Prop(h, userObject, "created"))
                   [] OTHER -> IF Truthy(forced) THEN NewDate(forced) ELSE Null]
             h1 == NewObject(h, "User", typed)
         IN  Built(copyWithout(h1, userObject, a, UserExcluded), Ref(a))

\* new models.Role(role)
NewRole(h, role) ==
    LET a == Len(h) + 1
        id == IF role.k = "ref" THEN Get(h, role.a, "_id") ELSE role
        key == PropertyKey(id)
        entry == IF key \in DOMAIN roles THEN roles[key] ELSE << >>
    IN  Built(NewObject(h, "Role", entry), Ref(a))

\* a boolean
Bool(b) == [k |-> "boolean", b |-> b]

\* a TypeError thrown instead of a value returned
TypeError == [k |-> "TypeError"]

\* x == y for the values of the model: undefined and null equal each other
\* and nothing else, strings equal strings of the same characters
LooseEquals(x, y) ==
    IF x.k \in {"undefined", "null"} THEN y.k \in {"undefined", "null"}
    ELSE x = y

\* role.is(roleType)
is(h, role, roleType) == Bool(LooseEquals(Get(h, role.a, "type"), roleType))

\* a hasRight that answers from the type of the role
hasRightByType(h, role, right) ==
    Bool(Get(h, role.a, "type") \in {Str("co-owner"), Str("manager"),
                                     Str("mod"), Str("resident-dj")})

\* role.hasRight(right): this.rights.includes(right)
hasRight(h, role, right) ==
    LET rights == Get(h, role.a, "rights")
    IN  IF rights.k # "array" THEN TypeError
        ELSE Bool(/\ right.k = "string"
                  /\ \E i \in DOMAIN rights.items : rights.items[i] = right.s)

RoomUserExcluded ==
    {"roomid", "userid", "_user", "roleid", "_id", "skippedCount", "order",
     "__v", "ot_token"}

\* new models.RoomUser(userObject, api)
NewRoomUser(h, userObject) ==
    IF ThrowsOnRead(userObject) THEN Threw(h)
    ELSE LET role == NewRole(h, Prop(h, userObject, "roleid"))
             embedded == Prop(h, userObject, "_user")
             user == IF TypeofObject(embedded)
                     THEN NewUser(role.h, embedded)
                     ELSE Built(role.h, Null)
             a == Len(user.h) + 1
             typed == [n \in {"roomId", "userId", "role", "user"} |->
                 CASE n = "roomId" -> Prop(h, userObject, "roomid")
                   [] n = "userId" -> Prop(h, userObject, "userid")
                   [] n = "role" -> role.v
                   [] OTHER -> user.v]
             h1 == NewObject(user.h, "RoomUser", typed)
         IN  IF user.threw THEN Threw(user.h)
             ELSE Built(copyWithout(h1, userObject, a, RoomUserExcluded), Ref(a))

\* obj.name of a raw object written out
Field(obj, name) == IF name \in DOMAIN obj.f THEN obj.f[name] ELSE Undefined

RECURSIVE NewUsers(_, _)
\* usersid.map((userObj) => new User(userObj)) over raw users written out
NewUsers(h, items) ==
    IF items = << >> THEN [h |-> h, items |-> << >>, threw |-> FALSE]
    ELSE LET raw == AllocTree(h, Head(items))
             user == NewUser(raw.h, raw.v)
             rest == NewUsers(user.h, Tail(items))
         IN  [h |-> rest.h, items |-> << user.v >> \o rest.items,
              threw |-> user.threw \/ rest.threw]

\* new models.Conversation(obj, api), obj written out
NewConversation(h, obj) ==
    LET usersid == Field(obj, "usersid").items
        bare == usersid # << >> /\ usersid[1].k = "string"
        users == IF bare THEN [h |-> h, items |-> << >>, threw |-> FALSE]
                 ELSE NewUsers(h, usersid)
        a == Len(users.h) + 1
        typed ==
            [id |-> Field(obj, "_id"),
             created |-> NewDate(Field(obj, "created")),
             latestMessageDate |-> NewDate(Field(obj, "latest_message")),
             latestMessageText |-> Field(obj, "latest_message_str"),
             readBy |-> Field(obj, "users_read"),
             userIds |-> Arr(IF bare THEN usersid
                             ELSE [i \in DOMAIN usersid |->
                                      Field(usersid[i], "_id")]),
             users |-> IF bare THEN Null ELSE Arr(users.items)]
    IN  IF users.threw THEN Threw(users.h)
        ELSE Built(NewObject(users.h, "Conversation", typed), Ref(a))

\* a promise: fulfilled with a value, rejected, or not yet settled
Resolved(v) == [k |-> "resolved", value |-> v]

Rejected == [k |-> "rejected", value |-> Undefined]

Pending == [k |-> "pending", value |-> Undefined]

\* roomUser.getUser(): the promise returned and the identifiers fetched
RoomUser_getUser(h, roomUser) ==
    LET user == Get(h, roomUser.a, "user")
    IN  IF Truthy(user) THEN [result |-> Resolved(user), fetch |-> << >>]
        ELSE [result |-> Pending,
              fetch |-> << Get(h, roomUser.a, "userId") >>]

\* conversation.getUsers(): the promise returned and the identifiers fetched
Conversation_getUsers(h, conversation) ==
    LET users == Get(h, conversation.a, "users")
    IN  IF Truthy(users) THEN [result |-> Resolved(users), fetch |-> << >>]
        ELSE [result |-> Pending,
              fetch |-> Get(h, conversation.a, "userIds").items]

\* a resolution that waits for the fetches of ids
Lookup(op, ids) ==
    [op |-> op, ids |-> ids, got |-> [i \in DOMAIN ids |-> Undefined]]

RoomExcluded ==
    {"_id", "status", "isPublic", "lang", "musicType", "allowedDjs",
     "created", "updated"}

\* new models.Room(roomObject)
NewRoom(h, roomObject) ==
    IF ThrowsOnRead(roomObject) THEN Threw(h)
    ELSE LET user == NewUser(h, Prop(h, roomObject, "_user"))
             a == Len(user.h) + 1
             typed == [n \in {"id", "user", "created", "updated"} |->
                 CASE n = "id" -> Prop(h, roomObject, "_id")
                   [] n = "user" -> user.v
                   [] n = "created" -> NewDate(Prop(h, roomObject, "created"))
                   [] OTHER -> NewDate(Prop(h, roomObject, "updated"))]
             h1 == NewObject(user.h, "Room", typed)
         IN  IF user.threw THEN Threw(user.h)
             ELSE Built(copyWithout(h1, roomObject, a, RoomExcluded), Ref(a))

SongExcluded == {"_id", "images", "created", "__v"}

\* new models.Song(songObject)
NewSong(h, songObject) ==
    IF ThrowsOnRead(songObject) \/ ThrowsOnRead(Prop(h, songObject, "images"))
    THEN Threw(h)
    ELSE LET a == Len(h) + 1
             typed == [n \in {"id", "created", "thumbnail"} |->
                 CASE n = "id" -> Prop(h, songObject, "_id")
                   [] n = "created" -> NewDate(Prop(h, songObject, "created"))
                   [] OTHER -> Prop(h, Prop(h, songObject, "images"), "thumbnail")]
             h1 == NewObject(h, "Song", typed)
         IN  Built(copyWithout(h1, songObject, a, SongExcluded), Ref(a))

PlaylistExcluded ==
    {"_id", "status", "removed", "isPublic", "created", "userid", "__v"}

\* new models.Playlist(playlistObject)
NewPlaylist(h, playlistObject) ==
    IF ThrowsOnRead(playlistObject) THEN Threw(h)
    ELSE LET a == Len(h) + 1
             typed == [n \in {"id", "userId", "created"} |->
                 CASE n = "id" -> Prop(h, playlistObject, "_id")
                   [] n = "userId" -> Prop(h, playlistObject, "userid")
                   [] OTHER -> NewDate(Prop(h, playlistObject, "created"))]
             h1 == NewObject(h, "Playlist", typed)
         IN  Built(copyWithout(h1, playlistObject, a, PlaylistExcluded),
                   Ref(a))

PlaylistSongExcluded == {"_id", "added", "_song", "playlistid", "__v"}

\* new models.PlaylistSong(songObject)
NewPlaylistSong(h, songObject) ==
    IF ThrowsOnRead(songObject) THEN Threw(h)
    ELSE LET song == NewSong(h, Prop(h, songObject, "_song"))
             a == Len(song.h) + 1
             typed == [n \in {"songId", "playlistId", "song", "added"} |->
                 CASE n = "songId" -> Prop(h, songObject, "songid")
                   [] n = "playlistId" -> Prop(h, songObject, "playlistid")
                   [] n = "song" -> song.v
                   [] OTHER -> NewDate(Prop(h, songObject, "added"))]
             h1 == NewObject(song.h, "PlaylistSong", typed)
         IN  IF song.threw THEN Threw(song.h)
             ELSE Built(copyWithout(h1, songObject, a, PlaylistSongExcluded),
                        Ref(a))

-----------------------------------------------------------------------------
(* Strings and regular expressions                                         *)

\* str.includes(sub)
includes(str, sub) ==
    \E p \in 0..(Len(str) - Len(sub)) : SubSeq(str, p + 1, p + Len(sub)) = sub

\* The RegExp objects a caller may hand to the client.  A pattern is a
\* literal, optionally anchored at the start of the input with ^; flags are
\* a subset of {g, y}.  ReA and ReB are two objects with the same source and
\* flags; ReG is stateful (global), ReU matches anywhere in the type.
RegExps == {"ReA", "ReB", "ReG", "ReU"}

\* regexp.source
source(re) ==
    IF re = "ReU" THEN [anchored |-> FALSE, lit |-> S_user]
    ELSE [anchored |-> TRUE, lit |-> S_user_update]

\* regexp.flags
flags(re) == IF re = "ReG" THEN {"g"} ELSE {}

\* the same without the anchor: a pattern that matches anywhere in str
MatchesAtUnanchored(re, str, p) ==
    /\ p + Len(source(re).lit) <= Len(str)
    /\ SubSeq(str, p + 1, p + Len(source(re).lit)) = source(re).lit

\* the pattern of re matches str at position p (0-based)
MatchesAt(re, str, p) ==
    /\ source(re).anchored => p = 0
    /\ p + Len(source(re).lit) <= Len(str)
    /\ SubSeq(str, p + 1, p + Len(source(re).lit)) = source(re).lit

\* regexp.exec(str) with regexp.lastIndex = li: whether it matched, where,
\* and the lastIndex it leaves (RegExpBuiltinExec)
exec(re, li, str) ==
    LET stateful == flags(re) # {}
        start == IF stateful THEN li ELSE 0
        tries == IF "y" \in flags(re) THEN {start} ELSE start..Len(str)
        hits == {p \in tries : MatchesAt(re, str, p)}
        first == CHOOSE p \in hits : \A q \in hits : p <= q
    IN  IF start > Len(str) \/ hits = {}
        THEN [matched |-> FALSE, index |-> -1,
              lastIndex |-> IF stateful THEN 0 ELSE li]
        ELSE [matched |-> TRUE, index |-> first,
              lastIndex |-> IF stateful
                            THEN first + Len(source(re).lit) ELSE li]

\* regexp.test(str)
test(re, li, str) == exec(re, li, str)

\* the pattern of re accepts str, whatever the state of the RegExp object
Accepts(re, str) == \E p \in 0..Len(str) : MatchesAt(re, str, p)

-----------------------------------------------------------------------------
(* The raw events the socket delivers, written out                         *)

Obj(fields) == [k |-> "object", f |-> fields, cls |-> "Object"]

RawUser1 ==
    Obj([_id |-> Str("u1"), username |-> Str("alice"),
         created |-> Str("1480000000000"), roleid |-> Null,
         _force_updated |-> Str("1490000000000"),
         profileImage |-> Obj([url |-> Str("alice.png")])])

RawUser2 ==
    Obj([_id |-> Str("u2"), username |-> Str("bob"),
         created |-> Str("1470000000000"),
         profileImage |-> Obj([url |-> Str("bob.png")])])

RawRoomUser ==
    Obj([_id |-> Str("ru1"), roomid |-> Str("r1"), userid |-> Str("u1"),
         roleid |-> Str("52d1ce33c38a06510c000001"), dubs |-> Str("7")])

RawRoom ==
    Obj([_id |-> Str("r1"), name |-> Str("lounge"), _user |-> RawUser2,
         created |-> Str("1460000000000"), updated |-> Str("1465000000000")])

RawSong ==
    Obj([_id |-> Str("s1"), name |-> Str("tune"),
         created |-> Str("1450000000000"),
         images |-> Obj([thumbnail |-> Str("tune.jpg")])])

RawPlaylist ==
    Obj([_id |-> Str("p1"), name |-> Str("mix"), userid |-> Str("u1"),
         created |-> Str("1440000000000")])

RawPlaylistSong ==
    Obj([_id |-> Str("ps1"), songid |-> Str("s1"), playlistid |-> Str("p1"),
         _song |-> RawSong, added |-> Str("1445000000000")])

\* a conversation as the service answers getConversation
RawConversation ==
    Obj([_id |-> Str("cv1"), created |-> Str("1430000000000"),
         usersid |-> Arr(<< Str("u1"), Str("u2") >>)])

\* the raw user the service holds under an identifier
RawUserOf(id) == IF id = Str("u2") THEN RawUser2 ELSE RawUser1

\* fetches collected in the order of their arrival
fetchSettledInArrivalOrder(h, target, lookup, k, ok) ==
    IF ~ok THEN [h |-> h, lookup |-> lookup, result |-> Rejected]
    ELSE LET raw == AllocTree(h, RawUserOf(lookup.ids[k]))
             user == NewUser(raw.h, raw.v)
             first == CHOOSE i \in DOMAIN lookup.got :
                          /\ lookup.got[i] = Undefined
                          /\ \A j \in 1..(i - 1) : lookup.got[j] # Undefined
             got == [lookup.got EXCEPT ![first] = user.v]
         IN  IF \E i \in DOMAIN got : got[i] = Undefined
             THEN [h |-> user.h, lookup |-> [lookup EXCEPT !.got = got],
                   result |-> Pending]
             ELSE IF lookup.op = "getUsers"
             THEN [h |-> SetField(user.h, target.a, "users", Arr(got)),
                   lookup |-> [lookup EXCEPT !.got = got],
                   result |-> Resolved(Arr(got))]
             ELSE [h |-> user.h, lookup |-> [lookup EXCEPT !.got = got],
                   result |-> Resolved(got[1])]

\* the k-th api.getUser of a resolution settles: the promise of getUser, or
\* Promise.all over the fetches and the handler that stores the users
fetchSettled(h, target, lookup, k, ok) ==
    IF ~ok THEN [h |-> h, lookup |-> lookup, result |-> Rejected]
    ELSE LET raw == AllocTree(h, RawUserOf(lookup.ids[k]))
             user == NewUser(raw.h, raw.v)
             got == [lookup.got EXCEPT ![k] = user.v]
         IN  IF \E i \in DOMAIN got : got[i] = Undefined
             THEN [h |-> user.h, lookup |-> [lookup EXCEPT !.got = got],
                   result |-> Pending]
             ELSE IF lookup.op = "getUsers"
             THEN [h |-> SetField(user.h, target.a, "users", Arr(got)),
                   lookup |-> [lookup EXCEPT !.got = got],
                   result |-> Resolved(Arr(got))]
             ELSE [h |-> user.h, lookup |-> [lookup EXCEPT !.got = got],
                   result |-> Resolved(got[1])]

\* an event of the given type carrying a user
UserEvent(type) == Obj([type |-> Chars(type), user |-> RawUser1])

\* a user-join event as a room channel delivers it
UserJoined ==
    Obj([type |-> Chars(S_user_join), user |-> RawUser1,
         roomUser |-> RawRoomUser])

RawEvents ==
    { Obj([type |-> Chars(S_chat_message), chatid |-> Str("c1"),
           message |-> Str("hello"), time |-> Str("1500000000000"),
           user |-> RawUser1]),
      UserEvent(S_room_playlist_dub),
      UserEvent(S_room_playlist_queue_update_dub),
      UserEvent(S_delete_chat_message),
      UserEvent(S_user_update_123),
      UserEvent(S_other_user_update),
      UserJoined,
      Obj([type |-> Chars(S_user_leave), user |-> RawUser1,
           room |-> RawRoom]),
      UserEvent(S_room_playlist_queue_update_grabs),
      UserEvent(S_user_pause_queue),
      Obj([type |-> Chars(S_room_playlist_update),
           startTime |-> Str("12"), song |-> Obj([songid |-> Str("s1")]),
           songInfo |-> RawSong]),
      Obj([type |-> Chars(S_user_ban), user |-> RawUser1,
           kickedUser |-> RawUser2, time |-> Str("60")]),
      Obj([type |-> Chars(S_user_update_us_456), user |-> RawRoomUser]),
      UserEvent(S_user_update_both),
      Obj([type |-> Chars(S_room_update), chatid |-> Str("c2"),
           user |-> RawUser2, songInfo |-> RawSong]),
      Obj([type |-> Chars(S_presence), user |-> RawUser1]) }

\* events typed with a name the client itself emits or listens under
ClientEvents ==
    { Obj([type |-> Chars(S_login)]),
      Obj([type |-> Chars(S_logout)]),
      Obj([type |-> Chars(S_connected)]),
      Obj([type |-> Chars(S_error), message |-> Str("hello")]) }

\* the types of the classification rules of processEvents that compare by
\* equality, and the substrings of those that test containment
ExactRuleTypes ==
    { S_chat_message, S_room_playlist_dub, S_room_playlist_queue_update_dub,
      S_delete_chat_message, S_user_join, S_user_leave,
      S_room_playlist_queue_update_grabs, S_user_pause_queue,
      S_room_playlist_update, S_user_ban }

ContainmentRuleParts == { S_user_update, S_user_update_us }

-----------------------------------------------------------------------------
(* DubtrackAPI.processEvents                                               *)

\* the outcome of a step of processEvents: the heap, and whether it threw
Done(h) == [h |-> h, threw |-> FALSE]

Failed(h) == [h |-> h, threw |-> TRUE]

\* event[name] = <the object a constructor built>, unless the constructor threw
Assign(built, e, name) ==
    IF built.threw THEN Failed(built.h)
    ELSE Done(SetField(built.h, e, name, built.v))

\* event.raw = lodash.clone(event): a copy of the top level only
CaptureShallow(h, e) ==
    LET copy == clone(h, Ref(e)) IN SetField(copy.h, e, "raw", copy.v)

\* event.raw = lodash.cloneDeep(event)
Capture(h, e) ==
    LET copy == cloneDeep(h, Ref(e)) IN SetField(copy.h, e, "raw", copy.v)

\* event.user = new models.User(event.user)
WrapUser(h, e) == Assign(NewUser(h, Get(h, e, "user")), e, "user")

\* the chat-message rule without the removal of chatid
ChatMessageKeepingChatid(h, e) ==
    LET h1 == SetField(h, e, "chatId", Get(h, e, "chatid"))
        user == WrapUser(h1, e)
    IN  IF user.threw THEN user
        ELSE Done(SetField(user.h, e, "time", NewDate(Get(user.h, e, "time"))))

\* the chat-message rule
ChatMessage(h, e) ==
    LET h1 == SetField(h, e, "chatId", Get(h, e, "chatid"))
        user == WrapUser(h1, e)
    IN  IF user.threw THEN user
        ELSE Done(DeleteField(
                 SetField(user.h, e, "time", NewDate(Get(user.h, e, "time"))),
                 e, "chatid"))

\* the user-join rule
UserJoin(h, e) ==
    LET user == WrapUser(h, e)
    IN  IF user.threw THEN user
        ELSE Assign(NewRoomUser(user.h, Get(user.h, e, "roomUser")),
                    e, "roomUser")

\* the user-leave rule
UserLeave(h, e) ==
    LET user == WrapUser(h, e)
    IN  IF user.threw THEN user
        ELSE Assign(NewRoom(user.h, Get(user.h, e, "room")), e, "room")

\* the room_playlist-update rule
RoomPlaylistUpdate(h, e) ==
    LET song == Assign(NewSong(h, Get(h, e, "songInfo")), e, "song")
    IN  IF song.threw THEN song ELSE Done(DeleteField(song.h, e, "songInfo"))

\* the user-ban rule: event.user is assigned first, and is then what the
\* moderator is built from
UserBan(h, e) ==
    LET user == Assign(NewUser(h, Get(h, e, "kickedUser")), e, "user")
        moderator == Assign(NewUser(user.h, Get(user.h, e, "user")),
                            e, "moderator")
    IN  IF user.threw THEN user
        ELSE IF moderator.threw THEN moderator
        ELSE Done(DeleteField(moderator.h, e, "kickedUser"))

\* the user_update rule
UserUpdateUnderscore(h, e) ==
    Assign(NewRoomUser(h, Get(h, e, "user")), e, "user")

\* the chain of type tests with a last rule that tests for `update` alone
TransformAnyUpdate(h, e) ==
    LET type == Get(h, e, "type")
        Is(str) == type = Chars(str)
    IN  IF Is(S_chat_message) THEN ChatMessage(h, e)
        ELSE IF ThrowsOnRead(type) THEN Failed(h)
        ELSE IF \/ Is(S_room_playlist_dub)
                \/ Is(S_room_playlist_queue_update_dub)
                \/ Is(S_delete_chat_message)
                \/ includes(type.c, S_user_update) THEN WrapUser(h, e)
        ELSE IF Is(S_user_join) THEN UserJoin(h, e)
        ELSE IF Is(S_user_leave) THEN UserLeave(h, e)
        ELSE IF \/ Is(S_room_playlist_queue_update_grabs)
                \/ Is(S_user_pause_queue) THEN WrapUser(h, e)
        ELSE IF Is(S_room_playlist_update) THEN RoomPlaylistUpdate(h, e)
        ELSE IF Is(S_user_ban) THEN UserBan(h, e)
        ELSE IF includes(type.c, S_update) THEN WrapUser(h, e)
        ELSE Done(h)

\* the chain with the user_update test ahead of the user-update test
TransformUnderscoreFirst(h, e) ==
    LET type == Get(h, e, "type")
        Is(str) == type = Chars(str)
    IN  IF Is(S_chat_message) THEN ChatMessage(h, e)
        ELSE IF ThrowsOnRead(type) THEN Failed(h)
        ELSE IF includes(type.c, S_user_update_us) THEN UserUpdateUnderscore(h, e)
        ELSE IF \/ Is(S_room_playlist_dub)
                \/ Is(S_room_playlist_queue_update_dub)
                \/ Is(S_delete_chat_message)
                \/ includes(type.c, S_user_update) THEN WrapUser(h, e)
        ELSE IF Is(S_user_join) THEN UserJoin(h, e)
        ELSE IF Is(S_user_leave) THEN UserLeave(h, e)
        ELSE IF \/ Is(S_room_playlist_queue_update_grabs)
                \/ Is(S_user_pause_queue) THEN WrapUser(h, e)
        ELSE IF Is(S_room_playlist_update) THEN RoomPlaylistUpdate(h, e)
        ELSE IF Is(S_user_ban) THEN UserBan(h, e)
        ELSE Done(h)

\* the chain of type tests of processEvents, after the capture of raw
Transform(h, e) ==
    LET type == Get(h, e, "type")
        Is(str) == type = Chars(str)
    IN  IF Is(S_chat_message) THEN ChatMessage(h, e)
        ELSE IF ThrowsOnRead(type) THEN Failed(h)
        ELSE IF \/ Is(S_room_playlist_dub)
                \/ Is(S_room_playlist_queue_update_dub)
                \/ Is(S_delete_chat_message)
                \/ includes(type.c, S_user_update) THEN WrapUser(h, e)
        ELSE IF Is(S_user_join) THEN UserJoin(h, e)
        ELSE IF Is(S_user_leave) THEN UserLeave(h, e)
        ELSE IF \/ Is(S_room_playlist_queue_update_grabs)
                \/ Is(S_user_pause_queue) THEN WrapUser(h, e)
        ELSE IF Is(S_room_playlist_update) THEN RoomPlaylistUpdate(h, e)
        ELSE IF Is(S_user_ban) THEN UserBan(h, e)
        ELSE IF includes(type.c, S_user_update_us) THEN UserUpdateUnderscore(h, e)
        ELSE Done(h)

\* the normalization of processEvents: nothing when the raw option is on
Normalize(h, e, raw) == IF raw THEN Done(h) ELSE Transform(Capture(h, e), e)

MaxRegexpListeners == 2

\* a comparison of the RegExp objects themselves
SameObject(registration, regexp) == registration.regexp = regexp

\* the predicate removeRegexpListener hands to findIndex
SameSourceAndFlags(registration, regexp) ==
    /\ source(registration.regexp) = source(regexp)
    /\ flags(registration.regexp) = flags(regexp)

\* removeRegexpListener(regexp, listener): the list it leaves
removeRegexpListener(listeners, regexp, listener) ==
    LET index == findIndex([i \in 1..Len(listeners) |->
                               SameSourceAndFlags(listeners[i], regexp)])
    IN  IF index # -1 THEN splice1(listeners, index) ELSE listeners

\* the registrations a dispatch works on: the list this._regexpListeners
\* and, for each entry, the position it had when the dispatch began (0 for
\* an entry added since)
Registry(listeners) ==
    [listeners |-> listeners, origins |-> [i \in 1..Len(listeners) |-> i]]

\* listener.listener(event): what the callback does to the registry.  cbOnce
\* calls removeRegexpListener with the pattern it was registered for and
\* itself, cbAdd calls addRegexpListener with its pattern and cb1 while the
\* registry has room, the other callbacks leave the registry alone.
\* removed is the starting position of the entry taken out, -1 if none.
\* cbThrow throws.
Throws(listener) == listener = "cbThrow"

invoke(registry, registration) ==
    LET listeners == registry.listeners
        index == findIndex([i \in 1..Len(listeners) |->
                     SameSourceAndFlags(listeners[i], registration.regexp)])
    IN  IF registration.listener = "cbOnce"
        THEN [listeners |-> removeRegexpListener(listeners,
                                registration.regexp, "cbOnce"),
              origins |-> IF index # -1 THEN splice1(registry.origins, index)
                          ELSE registry.origins,
              removed |-> IF index # -1 THEN registry.origins[index + 1]
                          ELSE -1,
              threw |-> FALSE]
        ELSE IF registration.listener = "cbAdd"
                /\ Len(listeners) < MaxRegexpListeners
        THEN [listeners |-> Append(listeners,
                                [regexp |-> registration.regexp,
                                 listener |-> "cb1"]),
              origins |-> Append(registry.origins, 0),
              removed |-> -1, threw |-> FALSE]
        ELSE [listeners |-> listeners, origins |-> registry.origins,
              removed |-> -1, threw |-> Throws(registration.listener)]

\* one invocation of a listener: the position of its registration in the
\* list at the time of the call and at the start of the dispatch, and the
\* starting position of the registration the callback removed
PatternCall(i, registration, e, origin, removed) ==
    [kind |-> "pattern", index |-> i, regexp |-> registration.regexp,
     listener |-> registration.listener, event |-> e,
     origin |-> origin, removed |-> removed]

ExactCall(i, registration, e) ==
    [kind |-> "exact", index |-> i, name |-> registration.name,
     listener |-> registration.listener, event |-> e]

RECURSIVE PatternLoop(_, _, _, _, _, _, _)
\* the loop for (let listener of this._regexpListeners) from position i on:
\* the array iterator reads the length and the entry at i from the list as
\* the callbacks have left it.  The result holds the calls made (appended to
\* acc), the lastIndex every RegExp is left with, the list at the end, and
\* whether a callback threw, which ends the loop.
PatternLoop(registry, i, type, e, onlyFirstMatch, li, acc) ==
    IF i > Len(registry.listeners)
    THEN [calls |-> acc, lastIndex |-> li, listeners |-> registry.listeners,
          threw |-> FALSE]
    ELSE LET registration == registry.listeners[i]
             re == registration.regexp
             result == test(re, li[re], type)
             li1 == [li EXCEPT ![re] = result.lastIndex]
             after == invoke(registry, registration)
             acc1 == Append(acc, PatternCall(i, registration, e,
                                     registry.origins[i], after.removed))
         IN  IF ~result.matched
             THEN PatternLoop(registry, i + 1, type, e, onlyFirstMatch, li1, acc)
             ELSE IF after.threw \/ onlyFirstMatch
             THEN [calls |-> acc1, lastIndex |-> li1,
                   listeners |-> after.listeners, threw |-> after.threw]
             ELSE PatternLoop([listeners |-> after.listeners,
                               origins |-> after.origins],
                              i + 1, type, e, onlyFirstMatch, li1, acc1)

\* the pattern dispatch of processEvents
PatternDispatch(listeners, type, e, onlyFirstMatch, li) ==
    PatternLoop(Registry(listeners), 1, type, e, onlyFirstMatch, li, << >>)

RECURSIVE EmitLoop(_, _, _, _)
\* EventEmitter.emit(name, event): every listener registered under exactly
\* that name is called once, in registration order, up to one that throws
EmitLoop(exact, i, name, e) ==
    IF i > Len(exact) THEN << >>
    ELSE IF exact[i].name # name THEN EmitLoop(exact, i + 1, name, e)
    ELSE IF Throws(exact[i].listener) THEN << ExactCall(i, exact[i], e) >>
    ELSE << ExactCall(i, exact[i], e) >> \o EmitLoop(exact, i + 1, name, e)

\* the last of the calls threw
Thrown(made) == made # << >> /\ Throws(made[Len(made)].listener)

\* EventEmitter.emit(name, event): the calls it makes and whether it throws,
\* which it does when a listener throws and when the name is error and no
\* listener is registered under it
emit(exact, name, e) ==
    [calls |-> EmitLoop(exact, 1, name, e),
     threw |-> \/ Thrown(EmitLoop(exact, 1, name, e))
               \/ name = S_error /\ EmitLoop(exact, 1, name, e) = << >>]

\* event.type as the name the listeners are looked up under: regexp.test
\* and emit turn a type that is no string into one.  The types of the
\* events drawn are strings, undefined, null and booleans.
typeName(h, e) ==
    LET type == Get(h, e, "type")
    IN  CASE type.k = "chars" -> type.c
          [] type.k = "undefined" -> S_undefined
          [] type.k = "null" -> S_null
          [] type.k = "boolean" -> IF type.b THEN S_true ELSE S_false

\* the end of processEvents: the pattern loop has ended with `pattern`, and
\* this.emit(event.type, event), reached unless a callback threw, has made
\* the calls of `made`; emits counts the emits reached
afterPatternLoop(h, pattern, made) ==
    IF pattern.threw
    THEN [h |-> h, calls |-> pattern.calls, lastIndex |-> pattern.lastIndex,
          listeners |-> pattern.listeners, threw |-> TRUE, emits |-> 0]
    ELSE [h |-> h, calls |-> pattern.calls \o made.calls,
          lastIndex |-> pattern.lastIndex, listeners |-> pattern.listeners,
          threw |-> made.threw, emits |-> 1]

\* the same with the emit on the general bus ahead of the pattern loop
afterEmit(h, made, pattern, listeners, li) ==
    IF made.threw
    THEN [h |-> h, calls |-> made.calls, lastIndex |-> li,
          listeners |-> listeners, threw |-> TRUE, emits |-> 1]
    ELSE [h |-> h, calls |-> made.calls \o pattern.calls,
          lastIndex |-> pattern.lastIndex, listeners |-> pattern.listeners,
          threw |-> pattern.threw, emits |-> 1]

\* processEvents with the emit on the general bus ahead of the pattern loop
processEventsEmitFirst(h, e, opts, listeners, exact, li) ==
    LET normalized == Normalize(h, e, opts.raw)
    IN  IF normalized.threw
        THEN [h |-> normalized.h, calls |-> << >>, lastIndex |-> li,
              listeners |-> listeners, threw |-> TRUE, emits |-> 0]
        ELSE afterEmit(normalized.h,
                 emit(exact, typeName(normalized.h, e), e),
                 PatternDispatch(listeners, typeName(normalized.h, e), e,
                                 opts.onlyFirstMatch, li),
                 listeners, li)

\* processEvents from the switch on: the normalization has left `normalized`
dispatch(normalized, e, opts, listeners, exact, li) ==
    IF normalized.threw
    THEN [h |-> normalized.h, calls |-> << >>, lastIndex |-> li,
          listeners |-> listeners, threw |-> TRUE, emits |-> 0]
    ELSE afterPatternLoop(normalized.h,
             PatternDispatch(listeners, typeName(normalized.h, e), e,
                             opts.onlyFirstMatch, li),
             emit(exact, typeName(normalized.h, e), e))

\* processEvents(event) with the event at address e of heap h
processEvents(h, e, opts, listeners, exact, li) ==
    dispatch(Normalize(h, e, opts.raw), e, opts, listeners, exact, li)

-----------------------------------------------------------------------------
(* Pattern and exact-name registrations                                    *)

\* the callbacks a caller registers
Callbacks == {"cb1", "cb2"}

\* the type of a written-out raw event
TypeOf(raw) == raw.f.type.c

\* the names exact-name listeners are registered under: every event type
EventTypes == {TypeOf(raw) : raw \in RawEvents}

\* the raw events of the dispatch scenarios: two types the patterns accept
\* from their first character, one they accept further on, one they reject
DispatchEvents ==
    { UserEvent(S_user_update_123), UserEvent(S_other_user_update),
      UserEvent(S_user_pause_queue),
      Obj([type |-> Chars(S_room_update), chatid |-> Str("c2")]) }

MaxExactListeners == 1

NoRemoval == [done |-> FALSE]

\* the objects a holder of the normalized event reaches through its fields
\* other than raw
Targets(h, a, skip) ==
    {h[a].f[n].a : n \in {m \in DOMAIN h[a].f \ skip : h[a].f[m].k = "ref"}}

RECURSIVE Closure(_, _)
Closure(h, found) ==
    LET more == found \cup UNION {Targets(h, a, {}) : a \in found}
    IN  IF more = found THEN found ELSE Closure(h, more)

PromotedObjects(h, e) == {e} \cup Closure(h, Targets(h, e, {"raw"}))

-----------------------------------------------------------------------------
(* The session: authorization state, HTTP requests, the socket wrapper.    *)
(* An operation takes the session as a record and returns the session it   *)
(* leaves; `emitted`, `sent`, `errors` and `wire` collect what one step did. *)

\* common/errors: the class each error class extends
Extends ==
    [BaseError |-> "Error", FatalError |-> "BaseError",
     DubtrackError |-> "BaseError", AccessDeniedError |-> "FatalError",
     TypeError |-> "Error"]

\* an error of class `class` instanceof `ancestor`
RECURSIVE instanceof(_, _)
instanceof(class, ancestor) ==
    IF class = ancestor THEN TRUE
    ELSE IF class \notin DOMAIN Extends THEN FALSE
    ELSE instanceof(Extends[class], ancestor)

\* the methods that reject unless this._authorized
AuthorizedOnly ==
    {"getMe", "followUser", "unfollowUser", "createRoom", "updateRoom",
     "sendMessage", "deleteMessage", "getOpenConversations",
     "getConversation", "sendMessageToConversation", "readConversation"}

\* methods that send their request whatever this._authorized is
Unguarded ==
    {"getToken", "getUser", "getUserFollowers", "createPlaylist",
     "deletePlaylist", "getPlaylistSongs", "addSongToPlaylist",
     "removePlaylistSong", "getPlaylists", "getRoom", "getRoomUser",
     "getRoomUsers", "getRoomStaff", "getMutedUsers", "getBannedUsers",
     "getRooms"}

\* sendMessageToUser has no check of its own: it calls getConversation,
\* which has one, and then sendMessageToConversation, which has one too
Chained == {"sendMessageToUser"}

\* the public methods that reach _request
Operations == AuthorizedOnly \cup Unguarded \cup Chained

\* what the then handler of the method's request makes of the data: a
\* model, a list of models, the next request of a chain, or, for a method
\* that returns the promise of _request, nothing
Handler(op) ==
    CASE op \in {"getMe", "getUser"} -> "user"
      [] op = "getRoom" -> "room"
      [] op = "getRoomUser" -> "roomUser"
      [] op \in {"getRoomUsers", "getRoomStaff", "getMutedUsers",
                 "getBannedUsers"} -> "roomUsers"
      [] op = "getRooms" -> "rooms"
      [] op = "getPlaylists" -> "playlists"
      [] op = "getPlaylistSongs" -> "playlistSongs"
      [] op = "sendMessageToUser" -> "sendMessageToUser"
      [] OTHER -> "return"

\* the handlers that build one model, and those that map over a list
ModelHandlers == {"user", "room", "roomUser"}

ListHandlers == {"roomUsers", "rooms", "playlists", "playlistSongs"}

\* the check left out of readConversation
requiresAuthorizationButOne(op) ==
    op \in (AuthorizedOnly \ {"readConversation"}) \cup Chained

\* the check at the top of the method `op`
requiresAuthorization(op) == op \in AuthorizedOnly \cup Chained

\* an HTTP request in flight, named by what runs when it settles
Request(then) == [then |-> then]

\* a channel.attach(next) whose callback has not run yet
Attach(name, then) == [name |-> name, then |-> then]

\* what comes back: a parsable body, an unparsable one, or no response
Reply(code, data) == [k |-> "json", code |-> code, data |-> data]

\* a response whose body is not JSON
Garbled == [k |-> "text", body |-> Str("<html>")]

NoReply == [k |-> "none"]

\* what an operation leaves: the session and how its promise stands
Outcome(s, outcome) == [s |-> s, outcome |-> outcome]

\* request(options): the request leaves
send(s, r) ==
    [s EXCEPT !.pending = @ (+) SetToBag({r}), !.sent = @ + 1]

\* DubtrackEvents._updateToken, up to the reply of getToken
updateToken(s) == send(s, Request("updateToken"))

\* _onError(err): console.error(err) when nobody listens for `error`,
\* emit('error', err) otherwise
onError(s, err) ==
    IF s.listening = 0 THEN [s EXCEPT !.errors = Append(@, err)]
    ELSE [s EXCEPT !.emitted = Append(@, "error")]

\* the promise at the end of a chain is rejected: the automatic join ends
\* in .catch((err) => this._onError(err)); the chains of the user channel
\* and of _updateToken end in a then without a rejection handler, and the
\* constructor's login in a finally, so the rejection is unhandled; any
\* other promise is the caller's
rejected(s, then, err) ==
    CASE then = "autoJoin" -> Outcome(onError(s, err), err)
      [] then \in {"userChannel", "updateToken", "constructor"} ->
           Outcome([s EXCEPT !.unhandled = Append(@, err)], err)
      [] OTHER -> Outcome(s, err)

\* emit('login'): the constructor's listener, then the socket's
emitLogin(s) ==
    LET t == [s EXCEPT !.authorized = TRUE, !.emitted = Append(@, "login")]
    IN  IF s.socket THEN updateToken(t) ELSE t

\* emit('logout') with a socket listener that reads the authorization flag
emitLogoutIfChanged(s) ==
    LET t == [s EXCEPT !.authorized = FALSE, !.emitted = Append(@, "logout")]
    IN  IF s.socket /\ s.authorized THEN updateToken(t) ELSE t

\* emit('logout'): the constructor's listener, then the socket's
emitLogout(s) ==
    LET t == [s EXCEPT !.authorized = FALSE, !.emitted = Append(@, "logout")]
    IN  IF s.socket THEN updateToken(t) ELSE t

\* a 401 answered like any other code of a well-formed body
requestDoneServiceError(s, reply) ==
    IF reply.k = "none" THEN Outcome(s, "FatalError")
    ELSE IF reply.k = "text" THEN Outcome(s, "FatalError")
    ELSE IF reply.code = 200 THEN Outcome(s, "resolved")
    ELSE Outcome(s, "DubtrackError")

\* a number
Num(n) == [k |-> "number", n |-> n]

\* an error object; its message is the sequence of the parts of the template
Err(cls, message, code, data) ==
    [k |-> "error", cls |-> cls, message |-> message, code |-> code,
     data |-> data]

\* the error request() rejects with when no response arrives
RequestError == Err("Error", << Str("ECONNRESET") >>, Undefined, Undefined)

\* new errors.FatalError(error): the message of an Error, or the string
NewFatalError(error) ==
    Err("FatalError", IF error.k = "error" THEN error.message ELSE error.parts,
        Undefined, Undefined)

\* a template string
Template(parts) == [k |-> "template", parts |-> parts]

\* new errors.AccessDeniedError()
NewAccessDeniedError ==
    Err("AccessDeniedError", << Str("Not logged in") >>, Undefined, Undefined)

\* new errors.DubtrackError(json)
NewDubtrackError(json) ==
    Err("DubtrackError",
        << Str("Error "), Num(json.code), Str(" with message \""), Undefined,
           Str("\" and data \""), json.data, Str("\"") >>,
        Num(json.code), json.data)

\* _request's handlers: how the promise of _request settles on a reply
requestDone(s, reply) ==
    LET thrown ==
            IF reply.k = "none" THEN RequestError
            ELSE IF reply.k = "text"
                 THEN NewFatalError(Template(
                          << Str("Error parsing Dubtrack response: "),
                             reply.body >>))
            ELSE IF reply.code = 200 THEN Undefined
            ELSE IF reply.code = 401 THEN NewAccessDeniedError
            ELSE NewDubtrackError(reply)
        caught ==
            IF thrown = Undefined \/ instanceof(thrown.cls, "BaseError")
            THEN thrown
            ELSE NewFatalError(thrown)
        t == IF reply.k = "json" /\ reply.code = 401 /\ s.authorized
             THEN emitLogout(s) ELSE s
    IN  IF caught = Undefined
        THEN Outcome([t EXCEPT !.value = reply.data], "resolved")
        ELSE Outcome([t EXCEPT !.rejection = caught], caught.cls)

\* typeof options.auth != 'object' || options.auth.autoLogin !== false
AutoLogin(cfg) == cfg.autoLogin # FALSE

\* new DubtrackSocket(api, options) and the rest of _initializeSocket
initializeSocket(s, cfg) ==
    [s EXCEPT !.socket = TRUE,
              !.connection = "connecting",
              !.oneShot =
                  (IF s.authorized THEN {"getMe"} ELSE {})
                  \cup (IF cfg.autoJoin # FALSE THEN {"join"} ELSE {})]

\* DubtrackEvents.isConnected
isConnected(s) == s.connection = "connected"

\* DubtrackEvents.join(roomIdentifier)
socketJoin(s, roomIdentifier, then) ==
    IF ~Truthy(roomIdentifier) THEN Outcome(s, "FatalError")
    ELSE IF ~isConnected(s) THEN Outcome(s, "FatalError")
    ELSE Outcome(send(s, Request(then)), "pending")

\* api.join(roomIdentifier)
join(s, cfg, roomIdentifier, then) ==
    IF ~s.socket THEN Outcome(s, "TypeError")
    ELSE socketJoin(s, IF Truthy(roomIdentifier) THEN roomIdentifier
                       ELSE cfg.room, then)

\* a call made on the transport, with the number of notifications the
\* step had emitted on the client's bus before it
Wire(s, call, arg) == [call |-> call, arg |-> arg, at |-> Len(s.emitted)]

\* DubtrackEvents.connect(): while connected a rejected promise is created
\* and dropped, a rejection nobody handles; connection.connect() is called
\* whatever isConnected says
socketConnect(s) ==
    [s EXCEPT !.connection =
                  IF isConnected(s) THEN "connected" ELSE "connecting",
              !.discarded =
                  IF isConnected(s) THEN Append(@, "FatalError") ELSE @,
              !.unhandled =
                  IF isConnected(s) THEN Append(@, "FatalError") ELSE @,
              !.wire = Append(@, Wire(s, "connect", Undefined))]

\* DubtrackEvents.disconnect(): while not connected a rejected promise is
\* created and dropped, a rejection nobody handles; close() is called
\* whatever isConnected says
socketDisconnect(s) ==
    [s EXCEPT !.connection = "closed",
              !.discarded =
                  IF isConnected(s) THEN @ ELSE Append(@, "FatalError"),
              !.unhandled =
                  IF isConnected(s) THEN @ ELSE Append(@, "FatalError"),
              !.wire = Append(@, Wire(s, "close", Undefined))]

\* this._socket.token = token.token; this._socket.clientId = token.clientId
setCredentials(s, token) ==
    LET parsed == AllocTree(<< >>, token)
    IN  [s EXCEPT !.wire = Append(@, Wire(s, "credentials",
              [token |-> Prop(parsed.h, parsed.v, "token"),
               clientId |-> Prop(parsed.h, parsed.v, "clientId")]))]

\* DubtrackEvents._updateToken, the handler of getToken's promise:
\* disconnect() comes first, then token.token is read, which throws on null
\* or undefined and leaves the chain, which has no rejection handler
refresh(s, token) ==
    IF ThrowsOnRead(token)
    THEN [socketDisconnect(s) EXCEPT !.unhandled = Append(@, "TypeError")]
    ELSE socketConnect(setCredentials(socketDisconnect(s), token))

\* api.connect()
connect(s) ==
    IF ~s.socket THEN Outcome(s, "TypeError")
    ELSE Outcome(socketConnect(s), "undefined")

\* api.disconnect()
disconnect(s) ==
    IF ~s.socket THEN Outcome(s, "TypeError")
    ELSE Outcome(socketDisconnect(s), "undefined")

\* api.leave(roomIdentifier), up to the reply of getRoom: no check of the
\* identifier, of the connection or of the authorization
leave(s) == Outcome(send(s, Request("leaveLookup")), "pending")

\* api.login(auth)
login(s) == Outcome(send(s, Request("login")), "pending")

\* api.logout()
logout(s) == Outcome(send(s, Request("logout")), "pending")

\* a method of Operations called by the user without options of its own:
\* the check of this._authorized where the method has one, then the request
call(s, op) ==
    IF requiresAuthorization(op) /\ ~s.authorized
    THEN Outcome(s, "AccessDeniedError")
    ELSE Outcome(send(s, Request(Handler(op))), "pending")

\* String(v) for the identifiers the service hands out
String(v) ==
    CASE v = Str("r1") -> << "r", "1" >>
      [] v = Str("u1") -> << "u", "1" >>
      [] v = Str("u2") -> << "u", "2" >>
      [] OTHER -> S_undefined

\* prefix + id
ChannelName(prefix, id) == Chars(prefix \o String(id))

\* DubtrackEvents._subscribe(channelName), up to the callback of attach
subscribe(s, name, then) ==
    [s EXCEPT !.channels = IF name \in Elements(@) THEN @ ELSE Append(@, name),
              !.attaching = @ (+) SetToBag({Attach(name, then)})]

\* getRoom(roomIdentifier) and the read of a property of what its promise
\* resolves with (room.id, object.roomId): the constructor or the read
\* threw, and the id read
getRoom(data, opts) ==
    LET parsed == AllocTree(<< >>, data)
        built == IF opts.raw THEN Built(parsed.h, parsed.v)
                 ELSE NewRoom(parsed.h, parsed.v)
    IN  [threw |-> built.threw \/ ThrowsOnRead(built.v),
         id |-> Prop(built.h, built.v, "id")]

\* getMe({raw: false}) and the read of session.id of what its promise
\* resolves with: the constructor or the read threw, and the id read
getMe(data, opts) ==
    LET parsed == AllocTree(<< >>, data)
        built == IF FALSE \/ opts.raw THEN Built(parsed.h, parsed.v)
                 ELSE NewUser(parsed.h, parsed.v)
    IN  [threw |-> built.threw \/ ThrowsOnRead(built.v),
         id |-> Prop(built.h, built.v, "id")]

\* getUser(userIdentifier, options): what the promise resolves with
getUser(data, callOptions, opts) ==
    LET parsed == AllocTree(<< >>, data)
        built == IF callOptions.raw \/ opts.raw
                 THEN Built(parsed.h, parsed.v)
                 ELSE NewUser(parsed.h, parsed.v)
    IN  [threw |-> built.threw, value |-> DeepValue(built.h, built.v)]

\* new models.X(object) for the model the handler builds
construct(h, handler, object) ==
    CASE handler = "user" -> NewUser(h, object)
      [] handler \in {"room", "rooms"} -> NewRoom(h, object)
      [] handler \in {"roomUser", "roomUsers"} -> NewRoomUser(h, object)
      [] handler = "playlists" -> NewPlaylist(h, object)
      [] OTHER -> NewPlaylistSong(h, object)

\* the list so far followed by one more model
afterModel(built, rest) ==
    [h |-> rest.h, items |-> << built.v >> \o rest.items,
     threw |-> built.threw \/ rest.threw]

RECURSIVE mapped(_, _, _), mappedFrom(_, _, _)
\* objects.map((object) => new models.X(object)) over raw objects written out
mapped(h, handler, items) ==
    IF items = << >> THEN [h |-> h, items |-> << >>, threw |-> FALSE]
    ELSE mappedFrom(AllocTree(h, Head(items)), handler, Tail(items))
mappedFrom(raw, handler, rest) ==
    afterModel(construct(raw.h, handler, raw.v),
               mapped(construct(raw.h, handler, raw.v).h, handler, rest))

\* the models of a list written out
ListValue(all) ==
    Arr([i \in DOMAIN all.items |-> DeepValue(all.h, all.items[i])])

\* the model written out
ModelValue(built) == DeepValue(built.h, built.v)

\* the model built from the data parsed
modelOf(parsed, handler) == construct(parsed.h, handler, parsed.v)

\* the then handler of a method called without options of its own: the
\* data when the client's raw option is on, otherwise a model or the models
\* of a list; objects.map throws a TypeError when the data is no array, the
\* constructors when they read a property of null or undefined
returned(handler, data, opts) ==
    IF handler = "return" \/ opts.raw THEN [threw |-> FALSE, value |-> data]
    ELSE IF handler \in ListHandlers
    THEN IF data.k # "array" THEN [threw |-> TRUE, value |-> Undefined]
         ELSE [threw |-> mapped(<< >>, handler, data.items).threw,
               value |-> ListValue(mapped(<< >>, handler, data.items))]
    ELSE [threw |-> modelOf(AllocTree(<< >>, data), handler).threw,
          value |-> ModelValue(modelOf(AllocTree(<< >>, data), handler))]

\* what runs when the promise of _request has settled with `outcome`
settle(s, cfg, opts, r, reply, outcome) ==
    CASE r.then = "login" ->
           IF outcome = "resolved" THEN Outcome(emitLogin(s), outcome)
           ELSE Outcome(s, outcome)
      [] r.then = "constructor" ->
           IF outcome = "resolved"
           THEN Outcome(initializeSocket(emitLogin(s), cfg), outcome)
           ELSE rejected(initializeSocket(s, cfg), r.then, outcome)
      [] r.then = "logout" ->
           IF outcome = "resolved" THEN Outcome(emitLogout(s), outcome)
           ELSE Outcome(s, outcome)
      [] r.then = "updateToken" ->
           IF outcome = "resolved"
           THEN Outcome(refresh(s, reply.data),
                        IF ThrowsOnRead(reply.data) THEN "TypeError"
                        ELSE outcome)
           ELSE rejected(s, r.then, outcome)
      [] r.then \in {"join", "autoJoin"} ->
           IF outcome # "resolved" THEN rejected(s, r.then, outcome)
           ELSE LET room == getRoom(reply.data, opts)
                IN  IF room.threw THEN rejected(s, r.then, "TypeError")
                    ELSE Outcome(subscribe(s, ChannelName(S_room_prefix,
                                           room.id), r.then), "pending")
      [] r.then = "leaveLookup" ->
           IF outcome # "resolved" THEN Outcome(s, outcome)
           ELSE IF getRoom(reply.data, opts).threw
           THEN Outcome(s, "TypeError")
           ELSE Outcome(send(s, Request("leave")), "pending")
      [] r.then = "leave" ->
           IF outcome = "resolved"
           THEN Outcome([s EXCEPT !.emitted = Append(@, "leave")], outcome)
           ELSE Outcome(s, outcome)
      [] r.then = "userChannel" ->
           IF outcome # "resolved" THEN rejected(s, r.then, outcome)
           ELSE LET me == getMe(reply.data, opts)
                IN  IF me.threw THEN rejected(s, r.then, "TypeError")
                    ELSE Outcome(subscribe(s, ChannelName(S_user_prefix,
                                           me.id), "userChannel"),
                                 "pending")
      [] r.then = "sendMessageToUser" ->
           IF outcome # "resolved" THEN Outcome(s, outcome)
           ELSE IF ThrowsOnRead(reply.data) THEN Outcome(s, "TypeError")
           ELSE call(s, "sendMessageToConversation")
      [] OTHER ->
           IF outcome # "resolved" THEN Outcome(s, outcome)
           ELSE IF returned(r.then, reply.data, opts).threw
           THEN Outcome(s, "TypeError")
           ELSE Outcome(s, outcome)

\* the callback of channel.attach and what _subscribe and join chain on it
attached(s, a, ok) ==
    IF ~ok THEN rejected(s, a.then, "Error")
    ELSE LET t == [s EXCEPT !.handlers = @ (+) SetToBag({a.name})]
         IN  Outcome(IF a.then \in {"join", "autoJoin"}
                     THEN [t EXCEPT !.emitted = Append(@, "join")] ELSE t,
                     "resolved")

\* a test that takes every channel for a presence channel
isPresenceChannelAlways(name) == Len(name.c) >= 0

\* /^room:/.test(channelName)
isPresenceChannel(name) ==
    /\ Len(S_room_prefix) <= Len(name.c)
    /\ SubSeq(name.c, 1, Len(S_room_prefix)) = S_room_prefix

\* _onConnected's loop over this._socket.channels.all, which holds the
\* channels in the order they were created
RECURSIVE reattach(_, _)
reattach(s, names) ==
    IF names = << >> THEN s
    ELSE LET name == Head(names)
             s1 == [s EXCEPT !.wire = Append(@, Wire(s, "attach", name))]
             s2 == IF isPresenceChannel(name)
                   THEN [s1 EXCEPT !.wire = Append(@, Wire(s, "enter", name))]
                   ELSE s1
         IN  reattach(s2, Tail(names))

\* emit('connected') on the client: the listener of _initializeSocket, if
\* it is still registered, is taken off and calls join(); a join that is
\* refused returns a rejected promise, whose catch handler runs in a later
\* turn of the event loop
emitConnected(s, cfg) ==
    LET s1 == [s EXCEPT !.oneShot = @ \ {"join"},
                        !.emitted = Append(@, "connected")]
        joined == IF "join" \in s.oneShot
                  THEN join(s1, cfg, Undefined, "autoJoin")
                  ELSE Outcome(s1, "none")
    IN  IF joined.outcome \in {"none", "pending"} THEN joined.s
        ELSE [joined.s EXCEPT !.catching = Append(@, joined.outcome)]

\* this.emit(event.type, event) at the end of processEvents: the client's own
\* listeners are on the same emitter, so an event named login or logout
\* runs the constructor's listener and the socket's, and an event named
\* connected runs the listener of _initializeSocket
emitType(s, cfg, type) ==
    CASE type = S_login -> emitLogin(s)
      [] type = S_logout -> emitLogout(s)
      [] type = S_connected -> emitConnected(s, cfg)
      [] OTHER -> s

\* the transport reports `connected`: _onConnected, which ends with
\* emit('connected') on the client, then the one-shot handler of the user's
\* channel; getMe rejects a client that is no longer authorized, and the
\* chain of the user channel has no rejection handler
onConnected(s, cfg) ==
    LET s0 == reattach([s EXCEPT !.connection = "connected"], s.channels)
        s1 == emitConnected(s0, cfg)
        s2 == [s1 EXCEPT !.oneShot = @ \ {"getMe"}]
    IN  IF "getMe" \notin s.oneShot THEN s2
        ELSE IF s2.authorized THEN send(s2, Request("userChannel"))
        ELSE [s2 EXCEPT !.unhandled = Append(@, "AccessDeniedError")]

\* .catch((err) => this._onError(err)) runs for the refused automatic join
caught(s) ==
    Outcome(onError([s EXCEPT !.catching = Tail(@)], Head(s.catching)),
            Head(s.catching))

\* what the token endpoint answers
RawToken == Obj([token |-> Str("t1"), clientId |-> Str("c1")])

\* the data the service answers a request with
DataFor(r) ==
    CASE r.then \in {"join", "autoJoin", "leaveLookup"} -> RawRoom
      [] r.then = "userChannel" -> RawUser1
      [] r.then = "updateToken" -> RawToken
      [] r.then = "user" -> RawUser1
      [] r.then = "room" -> RawRoom
      [] r.then = "roomUser" -> RawRoomUser
      [] r.then = "roomUsers" -> Arr(<< RawRoomUser >>)
      [] r.then = "rooms" -> Arr(<< RawRoom >>)
      [] r.then = "playlists" -> Arr(<< RawPlaylist >>)
      [] r.then = "playlistSongs" -> Arr(<< RawPlaylistSong >>)
      [] r.then = "sendMessageToUser" -> RawConversation
      [] OTHER -> Null

\* the data of an error response
RawFailure == Obj([details |-> Str("down")])

\* the token the service hands out after the first one
RawTokenRenewed == Obj([token |-> Str("t2"), clientId |-> Str("c2")])

Replies(r) ==
    {NoReply, Garbled, Reply(200, DataFor(r)), Reply(200, Null),
     Reply(401, Null), Reply(500, RawFailure)}
    \cup (IF r.then = "updateToken" THEN {Reply(200, RawTokenRenewed)}
          ELSE {})

\* room identifiers a caller passes to join
RoomIdentifiers == {Undefined, Str(""), Str("lounge")}

MaxPending == 2

\* subscribe handlers on one channel
MaxHandlers == 2

\* the session before the constructor has run
Blank ==
    [authorized |-> FALSE, socket |-> FALSE, connection |-> "none",
     pending |-> EmptyBag, attaching |-> EmptyBag, oneShot |-> {},
     catching |-> << >>, channels |-> << >>, handlers |-> EmptyBag,
     emitted |-> << >>, sent |-> 0, errors |-> << >>, wire |-> << >>,
     value |-> Undefined, rejection |-> Undefined,
     unhandled |-> << >>, listening |-> 0, discarded |-> << >>]

\* new DubtrackAPI(options): the session the constructor leaves
constructed(cfg) ==
    IF AutoLogin(cfg) THEN send(Blank, Request("constructor"))
    ELSE initializeSocket(Blank, cfg)

\* options of a client that neither logs in nor joins by itself
Manual == [autoLogin |-> FALSE, autoJoin |-> FALSE, room |-> Undefined]

Configurations ==
    [autoLogin : BOOLEAN, autoJoin : {TRUE},
     room : {Undefined, Str("lounge")}]

NoReport ==
    [phase |-> "none", op |-> "none", arg |-> Undefined, reply |-> NoReply,
     outcome |-> "none", emitted |-> << >>, sent |-> 0, errors |-> << >>,
     wire |-> << >>, value |-> Undefined, rejection |-> Undefined,
     unhandled |-> << >>, listening |-> 0, discarded |-> << >>,
     before |-> FALSE]


-----------------------------------------------------------------------------
(* Actions                                                                 *)

\* what the model remembers of the last event handed to processEvents
observation == << heap, event, received, calls, mutated, threw >>

NothingObserved ==
    /\ heap = << >>
    /\ event = 0
    /\ received = Undefined
    /\ calls = << >>
    /\ mutated = FALSE
    /\ threw = FALSE

\* the objects of the previous event are no longer looked at
Forget ==
    /\ heap' = << >>
    /\ event' = 0
    /\ received' = Undefined
    /\ calls' = << >>
    /\ mutated' = FALSE
    /\ threw' = FALSE

\* no query has been made
NoAnswer == [op |-> "none", arg |-> Undefined, result |-> Undefined]

\* no model object has been constructed
NoSubject == [ctor |-> "none", input |-> Undefined, v |-> Undefined,
              threw |-> FALSE]

NothingBuilt ==
    /\ objects = << >>
    /\ subject = NoSubject
    /\ answer = NoAnswer
    /\ lookups = << >>
    /\ fetches = 0

\* the session as the operations take it, nothing done in this step yet
Session ==
    [authorized |-> authorized, socket |-> socket, connection |-> connection,
     pending |-> pending, attaching |-> attaching, oneShot |-> oneShot,
     catching |-> catching, channels |-> channels, handlers |-> handlers,
     emitted |-> << >>, sent |-> 0, errors |-> << >>, wire |-> << >>,
     value |-> Undefined, rejection |-> Undefined,
     unhandled |-> << >>, discarded |-> << >>,
     listening |-> Cardinality({i \in 1..Len(exactListeners) :
                       exactListeners[i].name = S_error})]

InitSession(cfg) ==
    /\ config = cfg
    /\ authorized = constructed(cfg).authorized
    /\ socket = constructed(cfg).socket
    /\ connection = constructed(cfg).connection
    /\ pending = constructed(cfg).pending
    /\ attaching = constructed(cfg).attaching
    /\ oneShot = constructed(cfg).oneShot
    /\ catching = constructed(cfg).catching
    /\ channels = constructed(cfg).channels
    /\ handlers = constructed(cfg).handlers
    /\ report = NoReport

Init ==
    /\ options \in [raw : BOOLEAN, onlyFirstMatch : BOOLEAN]
    /\ regexpListeners = << >>
    /\ lastIndex = [re \in RegExps |-> 0]
    /\ exactListeners = << >>
    /\ NothingObserved
    /\ removal = NoRemoval
    /\ InitSession(Manual)
    /\ NothingBuilt

\* api.addRegexpListener(regexp, listener)
AddRegexpListener(regexp, listener) ==
    /\ Len(regexpListeners) < MaxRegexpListeners
    /\ regexpListeners' =
           Append(regexpListeners, [regexp |-> regexp, listener |-> listener])
    /\ removal' = NoRemoval
    /\ Forget
    /\ UNCHANGED << options, lastIndex, exactListeners, session,
                    models >>

\* api.removeRegexpListener(regexp, listener)
RemoveRegexpListener(regexp, listener) ==
    /\ regexpListeners' = removeRegexpListener(regexpListeners, regexp, listener)
    /\ removal' = [done |-> TRUE, regexp |-> regexp, listener |-> listener,
                   before |-> regexpListeners]
    /\ Forget
    /\ UNCHANGED << options, lastIndex, exactListeners, session,
                    models >>

\* api.on(name, listener) with a string name
On(name, listener) ==
    /\ Len(exactListeners) < MaxExactListeners
    /\ exactListeners' =
           Append(exactListeners, [name |-> name, listener |-> listener])
    /\ removal' = NoRemoval
    /\ Forget
    /\ UNCHANGED << options, regexpListeners, lastIndex, session,
                    models >>

\* the step leaves the session out.s and reports what it did
Committed(out, phase, op, arg, reply) ==
    /\ BagCardinality(out.s.pending) + BagCardinality(out.s.attaching)
           <= MaxPending
    /\ \A name \in BagToSet(out.s.handlers) :
           CopiesIn(name, out.s.handlers) <= MaxHandlers
    /\ authorized' = out.s.authorized
    /\ socket' = out.s.socket
    /\ connection' = out.s.connection
    /\ pending' = out.s.pending
    /\ attaching' = out.s.attaching
    /\ oneShot' = out.s.oneShot
    /\ catching' = out.s.catching
    /\ channels' = out.s.channels
    /\ handlers' = out.s.handlers
    /\ report' = [phase |-> phase, op |-> op, arg |-> arg, reply |-> reply,
                  outcome |-> out.outcome, emitted |-> out.s.emitted,
                  sent |-> out.s.sent, errors |-> out.s.errors,
                  wire |-> out.s.wire, value |-> out.s.value,
                  rejection |-> out.s.rejection,
                  unhandled |-> out.s.unhandled,
                  discarded |-> out.s.discarded,
                  listening |-> out.s.listening,
                  before |-> authorized]
    /\ UNCHANGED config

\* the calls so far followed by one more call of processEvents, which
\* returned or threw with out
afterHandler(acc, out) ==
    [h |-> out.h, calls |-> acc.calls \o out.calls,
     lastIndex |-> out.lastIndex, listeners |-> out.listeners,
     threw |-> acc.threw \/ out.threw, emits |-> acc.emits + out.emits]

RECURSIVE handlerCalls(_, _, _, _, _)
\* n handlers of one channel are handed the same event.data, one after the
\* other, each calling processEvents; acc is what the calls so far have left
handlerCalls(n, e, opts, exact, acc) ==
    IF n = 0 THEN acc
    ELSE handlerCalls(n - 1, e, opts, exact,
             afterHandler(acc, processEvents(acc.h, e, opts, acc.listeners,
                                             exact, acc.lastIndex)))

RECURSIVE emitTypes(_, _, _, _)
\* what n emits of one event type do to the session
emitTypes(s, cfg, type, n) ==
    IF n = 0 THEN s ELSE emitTypes(emitType(s, cfg, type), cfg, type, n - 1)

\* the fields the n calls of processEvents for the event raw have read and
\* written when the last of them returns or throws, the session their
\* emits leave included
Dispatched(raw, n, phase, op, arg) ==
    \E parsed \in {AllocTree(<< >>, raw)} :
      \E out \in {handlerCalls(n, parsed.v.a, options, exactListeners,
                      [h |-> parsed.h, calls |-> << >>, lastIndex |-> lastIndex,
                       listeners |-> regexpListeners, threw |-> FALSE,
                       emits |-> 0])} :
        /\ heap' = out.h
        /\ event' = parsed.v.a
        /\ received' = raw
        /\ calls' = out.calls
        /\ lastIndex' = out.lastIndex
        /\ threw' = out.threw
        /\ mutated' = FALSE
        /\ regexpListeners' = out.listeners
        /\ removal' = NoRemoval
        /\ UNCHANGED << options, exactListeners >>
        /\ \E done \in {Outcome(emitTypes(Session, config,
                                           typeName(parsed.h, parsed.v.a),
                                           out.emits), "none")} :
               Committed(done, phase, op, arg, NoReply)

\* api.processEvents(raw)
ProcessEvents(raw) ==
    /\ Dispatched(raw, 1, "call", "processEvents", Undefined)
    /\ UNCHANGED models

\* the transport delivers a message on a channel: every subscribe handler
\* of the channel is called with it and calls api.processEvents(event.data)
Message(name, raw) ==
    /\ name \in subscribed
    /\ connection = "connected"
    /\ Dispatched(raw, CopiesIn(name, handlers), "message", "message", name)
    /\ UNCHANGED models

\* a listener that was handed the normalized event later writes to one of
\* its promoted fields, or to an object reached through them
MutatePromoted ==
    /\ event # 0 /\ calls # << >> /\ ~mutated /\ ~options.raw
    /\ \E a \in PromotedObjects(heap, event) :
         \E n \in DOMAIN heap[a].f :
            /\ a = event => n # "raw"
            /\ heap' = SetField(heap, a, n, Str("mutated"))
    /\ mutated' = TRUE
    /\ UNCHANGED << options, regexpListeners, lastIndex, exactListeners, event,
                    received, calls, threw, removal, session,
                    models >>

\* Normalization: every raw event, exact-name listeners, later mutation
Next ==
    \/ \E name \in EventTypes : On(name, "cb1")
    \/ \E raw \in RawEvents : ProcessEvents(raw)
    \/ MutatePromoted

\* a client constructed without onlyFirstMatch
InitNormalization == Init /\ ~options.onlyFirstMatch

Spec == InitNormalization /\ [][Next]_vars

\* Dispatch: pattern and exact-name listeners, events told apart by type
NextDispatch ==
    \/ \E regexp \in RegExps \ {"ReB"} : AddRegexpListener(regexp, "cb1")
    \/ \E name \in {TypeOf(raw) : raw \in DispatchEvents} : On(name, "cb2")
    \/ \E raw \in DispatchEvents : ProcessEvents(raw)

SpecDispatch == Init /\ [][NextDispatch]_vars

\* Registry: pattern registrations added and removed
NextRegistry ==
    \/ \E regexp \in RegExps, listener \in Callbacks :
           AddRegexpListener(regexp, listener)
    \/ \E regexp \in RegExps, listener \in Callbacks :
           RemoveRegexpListener(regexp, listener)

SpecRegistry == Init /\ [][NextRegistry]_vars

\* Re-entrant dispatch: flagless patterns whose callbacks add and remove
\* pattern registrations while processEvents iterates
ReentrantCallbacks == {"cb1", "cbOnce", "cbAdd"}

NextReentrant ==
    \/ \E regexp \in {"ReA", "ReU"}, listener \in ReentrantCallbacks :
           AddRegexpListener(regexp, listener)
    \/ \E raw \in DispatchEvents : ProcessEvents(raw)

SpecReentrant == Init /\ [][NextReentrant]_vars

\* Throwing listeners: flagless patterns and exact names whose callbacks
\* return or throw, and events typed with the client's own names, error
\* among them
ThrowingCallbacks == {"cb1", "cbThrow"}

NextThrowing ==
    \/ \E regexp \in {"ReA", "ReU"}, listener \in ThrowingCallbacks :
           AddRegexpListener(regexp, listener)
    \/ \E name \in {TypeOf(raw) : raw \in DispatchEvents} \cup {S_error},
          listener \in ThrowingCallbacks : On(name, listener)
    \/ \E raw \in DispatchEvents \cup ClientEvents : ProcessEvents(raw)

SpecThrowing == Init /\ [][NextThrowing]_vars

\* the events a channel handler can receive that lack a field the rules
\* read: no type (a message on a channel without presence, whose handler
\* hands event.data on as it is) or the type null, or a recognized type
\* without its sub-object; and a presence event, whose handler fills the
\* type in
IncompleteEvents ==
    { Obj([user |-> RawUser1]),
      Obj([type |-> Null, user |-> RawUser1]),
      Obj([type |-> Chars(S_chat_message), chatid |-> Str("c1"),
           time |-> Str("1500000000000")]),
      Obj([type |-> Chars(S_user_join), user |-> RawUser1]),
      Obj([type |-> Chars(S_user_leave), user |-> RawUser1]),
      Obj([type |-> Chars(S_room_playlist_update), startTime |-> Str("12")]),
      Obj([type |-> Chars(S_user_ban), user |-> RawUser1]),
      Obj([type |-> Chars(S_presence), user |-> RawUser1]) }

\* Incomplete events: pattern and exact-name listeners, events that lack a
\* field
NextIncomplete ==
    \/ \E regexp \in {"ReA", "ReU"} : AddRegexpListener(regexp, "cb1")
    \/ \E name \in {S_undefined, S_null, S_user_join} : On(name, "cb2")
    \/ \E raw \in IncompleteEvents : ProcessEvents(raw)

SpecIncomplete == Init /\ [][NextIncomplete]_vars

-----------------------------------------------------------------------------
(* Actions of the session                                                  *)

Commit(out, phase, op, arg, reply) ==
    /\ Committed(out, phase, op, arg, reply)
    /\ UNCHANGED << pipeline, models >>

\* the user calls one of the HTTP methods
Call(op) ==
    \E out \in {call(Session, op)} : Commit(out, "call", op, Undefined, NoReply)

\* api.login()
Login ==
    \E out \in {login(Session)} :
        Commit(out, "call", "login", Undefined, NoReply)

\* api.logout()
Logout ==
    \E out \in {logout(Session)} :
        Commit(out, "call", "logout", Undefined, NoReply)

\* api.join(roomIdentifier)
Join(roomIdentifier) ==
    \E out \in {join(Session, config, roomIdentifier, "join")} :
        Commit(out, "call", "join", roomIdentifier, NoReply)

\* api.connect()
Connect ==
    \E out \in {connect(Session)} :
        Commit(out, "call", "connect", Undefined, NoReply)

\* api.disconnect()
Disconnect ==
    \E out \in {disconnect(Session)} :
        Commit(out, "call", "disconnect", Undefined, NoReply)

\* the reply to a request in flight arrives, or the request fails
Respond(r, reply) ==
    /\ BagIn(r, pending)
    /\ \E done \in {requestDone([Session EXCEPT
                                    !.pending = @ (-) SetToBag({r})], reply)} :
         \E out \in {settle(done.s, config, options, r, reply, done.outcome)} :
             Commit(out, "reply", r.then, Undefined, reply)

\* the transport calls back an attach
Attached(a, ok) ==
    /\ BagIn(a, attaching)
    /\ \E out \in {attached([Session EXCEPT
                                !.attaching = @ (-) SetToBag({a})], a, ok)} :
           Commit(out, "attached", a.then, Undefined, NoReply)

\* the transport reports `connected`
TransportConnected ==
    /\ socket /\ connection = "connecting"
    /\ \E out \in {Outcome(onConnected(Session, config), "none")} :
           Commit(out, "transport", "connected", Undefined, NoReply)

\* the catch handler of the automatic join runs, in a turn of its own
Caught ==
    /\ catching # << >>
    /\ \E out \in {caught(Session)} :
           Commit(out, "caught", "autoJoin", Undefined, NoReply)

\* the transport loses its connection and starts over
TransportDisconnected ==
    /\ socket /\ connection = "connected"
    /\ \E out \in {Outcome([Session EXCEPT
                               !.connection = "connecting",
                               !.emitted = << "disconnected" >>], "none")} :
           Commit(out, "transport", "disconnected", Undefined, NoReply)

\* Session: login, logout, the automatic join, replies and the transport,
\* with one method that requires authorization and one that does not
\* the events of the subscribed channels whose type is the name of one of
\* the client's own notifications
AuthEvents ==
    { Obj([type |-> Chars(S_login)]), Obj([type |-> Chars(S_logout)]) }

NextAuth ==
    \/ \E op \in {"getMe", "getToken"} : Call(op)
    \/ Login
    \/ Logout
    \/ Connect
    \/ Disconnect
    \/ \E r \in BagToSet(pending) : \E reply \in Replies(r) : Respond(r, reply)
    \/ \E a \in BagToSet(attaching) : \E ok \in BOOLEAN : Attached(a, ok)
    \/ TransportConnected
    \/ Caught
    \/ TransportDisconnected
    \/ \E name \in subscribed : \E raw \in AuthEvents : Message(name, raw)

InitAuth ==
    /\ options = [raw |-> FALSE, onlyFirstMatch |-> FALSE]
    /\ regexpListeners = << >>
    /\ lastIndex = [re \in RegExps |-> 0]
    /\ exactListeners = << >>
    /\ NothingObserved
    /\ removal = NoRemoval
    /\ \E cfg \in Configurations : InitSession(cfg)
    /\ NothingBuilt

SpecAuth == InitAuth /\ [][NextAuth]_vars

\* a client constructed with either value of the global raw option
InitRawOption ==
    /\ options \in [raw : BOOLEAN, onlyFirstMatch : {FALSE}]
    /\ regexpListeners = << >>
    /\ lastIndex = [re \in RegExps |-> 0]
    /\ exactListeners = << >>
    /\ NothingObserved
    /\ removal = NoRemoval
    /\ \E cfg \in Configurations : InitSession(cfg)
    /\ NothingBuilt

\* The user's channel: the constructor's login, the transport connecting,
\* getMe and the attach of the channel, with the automatic join beside them
NextUserChannel ==
    \/ \E r \in BagToSet(pending) : \E reply \in Replies(r) : Respond(r, reply)
    \/ \E a \in BagToSet(attaching) : \E ok \in BOOLEAN : Attached(a, ok)
    \/ TransportConnected
    \/ Caught

SpecUserChannel == InitRawOption /\ [][NextUserChannel]_vars

\* a client constructed with or without automatic login and no room
InitGuards == InitAuth /\ config.room = Undefined

\* Guards: every HTTP method called in both authorization states, and the
\* replies to their requests
NextGuards ==
    \/ \E op \in Operations : Call(op)
    \/ Login
    \/ Logout
    \/ \E r \in BagToSet(pending) : \E reply \in Replies(r) : Respond(r, reply)

SpecGuards == InitGuards /\ [][NextGuards]_vars

\* Background: the operations the client starts by itself (the automatic
\* join, the subscription to the user's channel, the token refresh), their
\* replies, and listeners for `error`
NextBackground ==
    \/ On(S_error, "cb1")
    \/ Login
    \/ Logout
    \/ \E r \in BagToSet(pending) : \E reply \in Replies(r) : Respond(r, reply)
    \/ \E a \in BagToSet(attaching) : \E ok \in BOOLEAN : Attached(a, ok)
    \/ TransportConnected
    \/ Caught

SpecBackground == InitAuth /\ [][NextBackground]_vars

\* api.leave(roomIdentifier)
Leave(roomIdentifier) ==
    \E out \in {leave(Session)} :
        Commit(out, "call", "leave", roomIdentifier, NoReply)

\* Channels: join, leave, connect and disconnect, their replies, the
\* transport, and the messages of the subscribed channels
NextChannels ==
    \/ \E roomIdentifier \in RoomIdentifiers : Join(roomIdentifier)
    \/ Leave(Str("lounge"))
    \/ Connect
    \/ Disconnect
    \/ \E r \in BagToSet(pending) : \E reply \in Replies(r) : Respond(r, reply)
    \/ \E a \in BagToSet(attaching) : \E ok \in BOOLEAN : Attached(a, ok)
    \/ TransportConnected
    \/ Caught
    \/ TransportDisconnected
    \/ \E name \in subscribed : Message(name, UserJoined)

SpecChannels == InitAuth /\ [][NextChannels]_vars

\* the events a channel can deliver: a room event, and events whose type is
\* the name of one of the client's own notifications
ChannelEvents ==
    { UserJoined, Obj([type |-> Chars(S_login)]),
      Obj([type |-> Chars(S_logout)]), Obj([type |-> Chars(S_connected)]) }

\* Received events: login, the automatic join and the user's channel, their
\* replies, the transport, and the messages of the subscribed channels
NextReceived ==
    \/ Login
    \/ \E r \in BagToSet(pending) : \E reply \in Replies(r) : Respond(r, reply)
    \/ \E a \in BagToSet(attaching) : \E ok \in BOOLEAN : Attached(a, ok)
    \/ TransportConnected
    \/ Caught
    \/ \E name \in subscribed : \E raw \in ChannelEvents : Message(name, raw)

SpecReceived == InitAuth /\ [][NextReceived]_vars

\* a user-ban event as a room channel delivers it
UserBanned ==
    Obj([type |-> Chars(S_user_ban), user |-> RawUser1,
         kickedUser |-> RawUser2, time |-> Str("60")])

\* Joining again: a listener for user-join or for user-ban, joins of the
\* same room, their replies, the transport, and the messages of the
\* subscribed channels
NextRejoin ==
    \/ \E type \in {S_user_join, S_user_ban} : On(type, "cb1")
    \/ Join(Str("lounge"))
    \/ \E r \in BagToSet(pending) : \E reply \in Replies(r) : Respond(r, reply)
    \/ \E a \in BagToSet(attaching) : \E ok \in BOOLEAN : Attached(a, ok)
    \/ TransportConnected
    \/ Caught
    \/ \E name \in subscribed :
          \E raw \in {UserJoined, UserBanned} : Message(name, raw)

SpecRejoin == InitAuth /\ [][NextRejoin]_vars

-----------------------------------------------------------------------------
(* Actions on the models                                                   *)

\* identifiers a role is asked for: the keys of the table, an identifier the
\* table does not have, null and undefined
RoleIdentifiers ==
    {Str(key) : key \in (DOMAIN roles \ {"null"}) \cup {"0000"}}
    \cup {Null, Undefined}

\* what a Role is constructed from: an identifier or a raw role object
RoleInputs == RoleIdentifiers \cup {Obj([_id |-> id]) : id \in RoleIdentifiers}

RoleTypes ==
    {Str("co-owner"), Str("manager"), Str("mod"), Str("vip"),
     Str("resident-dj"), Str("dj"), Str("user"), Undefined}

Rights ==
    {Str(right) : right \in
        {"update-room", "set-roles", "set-managers", "skip", "queue-order",
         "kick", "ban", "mute", "set-dj", "lock-queue", "delete-chat",
         "chat-mention", "fly"}}

\* new models.Role(role)
ConstructRole(role) ==
    \E raw \in {AllocTree(<< >>, role)} :
        \E built \in {NewRole(raw.h, raw.v)} :
            /\ objects' = built.h
            /\ subject' = [ctor |-> "Role", input |-> role, v |-> built.v,
                           threw |-> built.threw]
            /\ answer' = NoAnswer
            /\ lookups' = << >>
            /\ fetches' = 0
            /\ UNCHANGED << pipeline, session >>

\* role.is(roleType) on the role last constructed
Is(roleType) ==
    /\ subject.ctor = "Role"
    /\ answer' = [op |-> "is", arg |-> roleType,
                  result |-> is(objects, subject.v, roleType)]
    /\ UNCHANGED << objects, subject, lookups, fetches, pipeline, session >>

\* role.hasRight(right) on the role last constructed
HasRight(right) ==
    /\ subject.ctor = "Role"
    /\ answer' = [op |-> "hasRight", arg |-> right,
                  result |-> hasRight(objects, subject.v, right)]
    /\ UNCHANGED << objects, subject, lookups, fetches, pipeline, session >>

\* Roles: every role input, asked for every type and every right
NextRoles ==
    \/ \E role \in RoleInputs : ConstructRole(role)
    \/ \E roleType \in RoleTypes : Is(roleType)
    \/ \E right \in Rights : HasRight(right)

MaxLookups == 2

MaxFetches == 4

\* a membership as an event carries it, and one with its user embedded
RoomUserInputs ==
    {RawRoomUser,
     Obj([_id |-> Str("ru1"), roomid |-> Str("r1"), userid |-> Str("u1"),
          roleid |-> Null, _user |-> RawUser1])}

\* conversations listing their participants by identifier, and embedded
ConversationInputs ==
    {Obj([_id |-> Str("cv1"), created |-> Str("1480000000000"),
          usersid |-> Arr(participants)]) :
        participants \in {<< Str("u1") >>, << Str("u1"), Str("u2") >>,
                          << Str("u2"), Str("u1") >>, << RawUser1, RawUser2 >>,
                          << >>}}

\* the fields the constructors assign themselves
TypedFields ==
    [User |-> {"id", "created", "lastLogin"},
     Room |-> {"id", "user", "created", "updated"},
     Song |-> {"id", "created", "thumbnail"},
     RoomUser |-> {"roomId", "userId", "role", "user"}]

\* a raw object that also carries the keys of `extra`
With(raw, extra) ==
    Obj([n \in DOMAIN raw.f \cup DOMAIN extra |->
            IF n \in DOMAIN extra THEN extra[n] ELSE raw.f[n]])

\* raw objects as the service sends them, and the same with keys named like
\* the fields of the model
ModelInputs(ctor) ==
    {With(raw, extra) :
        raw \in CASE ctor = "User" -> {RawUser1, RawUser2}
                  [] ctor = "Room" -> {RawRoom}
                  [] ctor = "Song" -> {RawSong}
                  [] OTHER -> RoomUserInputs,
        extra \in UNION {[names -> {Str("other"), Null}] :
                            names \in SUBSET TypedFields[ctor]}}

\* new models.<ctor>(input)
Construct(ctor, input) ==
    \E built \in {IF ctor = "Conversation"
                  THEN NewConversation(<< >>, input)
                  ELSE LET raw == AllocTree(<< >>, input)
                       IN  CASE ctor = "User" -> NewUser(raw.h, raw.v)
                             [] ctor = "Room" -> NewRoom(raw.h, raw.v)
                             [] ctor = "Song" -> NewSong(raw.h, raw.v)
                             [] OTHER -> NewRoomUser(raw.h, raw.v)} :
        /\ objects' = built.h
        /\ subject' = [ctor |-> ctor, input |-> input, v |-> built.v,
                       threw |-> built.threw]
        /\ answer' = NoAnswer
        /\ lookups' = << >>
        /\ fetches' = 0
        /\ UNCHANGED << pipeline, session >>

\* the subject starts a resolution: its cached value, or fetches
Resolve(op, started) ==
    /\ Len(lookups) + (IF started.fetch = << >> THEN 0 ELSE 1) <= MaxLookups
    /\ fetches + Len(started.fetch) <= MaxFetches
    /\ lookups' = IF started.fetch = << >> THEN lookups
                  ELSE Append(lookups, Lookup(op, started.fetch))
    /\ fetches' = fetches + Len(started.fetch)
    /\ answer' = [op |-> op, arg |-> Undefined, result |-> started.result]
    /\ UNCHANGED << objects, subject, pipeline, session >>

\* roomUser.getUser()
GetUser ==
    /\ subject.ctor = "RoomUser"
    /\ \E started \in {RoomUser_getUser(objects, subject.v)} :
           Resolve("getUser", started)

\* conversation.getUsers()
GetUsers ==
    /\ subject.ctor = "Conversation"
    /\ \E started \in {Conversation_getUsers(objects, subject.v)} :
           Resolve("getUsers", started)

\* the k-th fetch of the i-th waiting resolution succeeds or fails; a
\* resolution that has settled waits no longer
FetchSettled(i, k, ok) ==
    /\ lookups[i].got[k] = Undefined
    /\ \E out \in {fetchSettled(objects, subject.v, lookups[i], k, ok)} :
           /\ objects' = out.h
           /\ lookups' =
                  IF out.result.k = "pending"
                  THEN [lookups EXCEPT ![i] = out.lookup]
                  ELSE SubSeq(lookups, 1, i - 1)
                           \o SubSeq(lookups, i + 1, Len(lookups))
           /\ answer' =
                  IF out.result.k = "pending" THEN answer
                  ELSE [op |-> lookups[i].op, arg |-> Undefined,
                        result |-> out.result]
    /\ UNCHANGED << subject, fetches, pipeline, session >>

\* Lazy references: memberships and conversations resolving their users
NextLazy ==
    \/ \E input \in RoomUserInputs : Construct("RoomUser", input)
    \/ \E input \in ConversationInputs : Construct("Conversation", input)
    \/ GetUser
    \/ GetUsers
    \/ \E i \in DOMAIN lookups : \E k \in DOMAIN lookups[i].got :
           \E ok \in BOOLEAN : FetchSettled(i, k, ok)

InitModels == Init /\ options = [raw |-> FALSE, onlyFirstMatch |-> FALSE]

SpecRoles == InitModels /\ [][NextRoles]_vars

SpecLazy == InitModels /\ [][NextLazy]_vars

\* Models: every constructor on every raw input
NextModels ==
    \E ctor \in DOMAIN TypedFields :
        \E input \in ModelInputs(ctor) : Construct(ctor, input)

SpecModels == InitModels /\ [][NextModels]_vars

-----------------------------------------------------------------------------
(* Properties of the normalization (Spec)                                  *)

\* processEvents has normalized an event that no listener has touched since
Normalized == event # 0 /\ ~options.raw /\ ~threw

Fresh == Normalized /\ ~mutated

\* the typed User the constructor builds from a written-out raw user
UserOf(rawUser) ==
    LET parsed == AllocTree(<< >>, rawUser)
        built == NewUser(parsed.h, parsed.v)
    IN  DeepValue(built.h, built.v)

\* the objects reached from the raw copy of the event
RawObjects == Closure(heap, Targets(heap, event, DOMAIN heap[event].f \ {"raw"}))

\* C1: with the raw option off, the raw field of the dispatched event
\* deep-equals the event exactly as it was received, it still does after a
\* listener has written to a promoted field or to an object reached through
\* one, and no object is reachable both from raw and from the other fields.
C1_RawIsTheReceivedEvent ==
    Normalized =>
        /\ DeepValue(heap, Get(heap, event, "raw")) = received
        /\ RawObjects \cap PromotedObjects(heap, event) = {}

\* a listener has written to the picture of the promoted user of a
\* chat-message, two objects below the event
C1_Witness ==
    /\ Normalized /\ mutated
    /\ TypeOf(received) = S_chat_message
    /\ Prop(heap, Prop(heap, Get(heap, event, "user"), "profileImage"), "url")
         = Str("mutated")

\* C2: a user-ban event {user: U1, kickedUser: U2} is normalized to user =
\* User(U2), moderator = User(U1), without kickedUser.
C2_UserBanSwap ==
    (Fresh /\ TypeOf(received) = S_user_ban) =>
        /\ DeepValue(heap, Get(heap, event, "user")) = UserOf(received.f.kickedUser)
        /\ DeepValue(heap, Get(heap, event, "moderator")) = UserOf(received.f.user)
        /\ "kickedUser" \notin DOMAIN heap[event].f

\* the calls made to the exact-name registration i
ExactCallsOf(i) ==
    {j \in 1..Len(calls) : calls[j].kind = "exact" /\ calls[j].index = i}

\* C3: for a chat-message event every listener registered under the name
\* chat-message is called exactly once, with the normalized event: chatId is
\* the raw chatid, chatid is gone, user is a typed User, time is a date, and
\* raw.chatid is still the received value.
C3_ChatMessage ==
    (Fresh /\ TypeOf(received) = S_chat_message) =>
        /\ \A i \in 1..Len(exactListeners) :
              exactListeners[i].name = S_chat_message =>
                  /\ Cardinality(ExactCallsOf(i)) = 1
                  /\ \A j \in ExactCallsOf(i) : calls[j].event = event
        /\ Get(heap, event, "chatId") = received.f.chatid
        /\ "chatid" \notin DOMAIN heap[event].f
        /\ Get(heap, event, "user").k = "ref"
        /\ heap[Get(heap, event, "user").a].cls = "User"
        /\ DeepValue(heap, Get(heap, event, "user")) = UserOf(received.f.user)
        /\ Get(heap, event, "time") = NewDate(received.f.time)
        /\ Get(heap, event, "time").k = "date"
        /\ Prop(heap, Get(heap, event, "raw"), "chatid") = received.f.chatid

\* a chat-message event was delivered to a listener registered for it
C3_Witness ==
    /\ Fresh /\ TypeOf(received) = S_chat_message
    /\ \E j \in 1..Len(calls) :
          calls[j].kind = "exact" /\ calls[j].name = S_chat_message

\* no classification rule of processEvents applies to the type
Unclassified(type) ==
    /\ type \notin ExactRuleTypes
    /\ \A part \in ContainmentRuleParts : ~includes(type, part)

\* C4: an event whose type no rule matches is dispatched with every field it
\* was received with, each with its value, and the one additional field raw.
C4_UnclassifiedPassThrough ==
    (Fresh /\ Unclassified(TypeOf(received))) =>
        /\ DOMAIN heap[event].f = DOMAIN received.f \cup {"raw"}
        /\ "raw" \notin DOMAIN received.f
        /\ \A n \in DOMAIN received.f :
              DeepValue(heap, heap[event].f[n]) = received.f[n]

\* an unclassified event that carries a user and a chatid was dispatched
C4_Witness ==
    /\ Fresh /\ TypeOf(received) = S_room_update
    /\ {"user", "chatid", "songInfo"} \subseteq DOMAIN heap[event].f
    /\ calls # << >>

-----------------------------------------------------------------------------
(* Properties of the dispatch (SpecDispatch)                               *)

\* the pattern registrations whose pattern accepts the type of the event
MatchingRegistrations ==
    {i \in 1..Len(regexpListeners) :
        Accepts(regexpListeners[i].regexp, TypeOf(received))}

\* the pattern registrations called for the event, in call order
PatternCallIndexes ==
    LET pattern == SelectSeq(calls, LAMBDA c : c.kind = "pattern")
    IN  [j \in 1..Len(pattern) |-> pattern[j].index]

\* C5: with onlyFirstMatch on, when two or more pattern registrations match
\* the event only the first registered of them is called; every exact-name
\* listener of the type is called all the same.
C5_OnlyFirstMatch ==
    (event # 0 /\ ~threw /\ options.onlyFirstMatch) =>
        /\ Cardinality(MatchingRegistrations) >= 2 =>
              PatternCallIndexes =
                  << CHOOSE i \in MatchingRegistrations :
                        \A j \in MatchingRegistrations : i <= j >>
        /\ \A i \in 1..Len(exactListeners) :
              exactListeners[i].name = TypeOf(received) =>
                  Cardinality(ExactCallsOf(i)) = 1

-----------------------------------------------------------------------------
(* Properties of the registry (SpecRegistry)                               *)

\* the registrations of the list before the removal that have the source and
\* the flags of the pattern handed to removeRegexpListener
EqualRegistrations ==
    {i \in 1..Len(removal.before) :
        /\ source(removal.before[i].regexp) = source(removal.regexp)
        /\ flags(removal.before[i].regexp) = flags(removal.regexp)}

\* C6: removing with a pattern that has the source and flags of a registered
\* one, the same object or not, removes that registration (the first such);
\* removing with a pattern no registration equals leaves the list as it was.
C6_RemoveByValue ==
    removal.done =>
        IF EqualRegistrations = {}
        THEN regexpListeners = removal.before
        ELSE \E i \in EqualRegistrations :
                /\ \A j \in EqualRegistrations : i <= j
                /\ Len(regexpListeners) = Len(removal.before) - 1
                /\ \A k \in 1..Len(regexpListeners) :
                      regexpListeners[k] =
                          removal.before[IF k < i THEN k ELSE k + 1]

\* the registration of ReA was removed by handing in the distinct object ReB
C6_Witness ==
    /\ removal.done /\ removal.regexp = "ReB"
    /\ Len(removal.before) = 2
    /\ removal.before[2].regexp = "ReA"
    /\ removal.before[1].regexp = "ReG"
    /\ regexpListeners = << removal.before[1] >>

-----------------------------------------------------------------------------
(* Properties of the session (SpecAuth, SpecGuards)                        *)

Emitted(name) == \E i \in DOMAIN report.emitted : report.emitted[i] = name

\* the last step was the reply `code` to a request
Replied(code) ==
    report.phase = "reply" /\ report.reply.k = "json" /\ report.reply.code = code

\* C7: the client starts logged out; a login that succeeds leaves
\* isAuthorized() true and emits login, a logout that succeeds leaves it false
\* and emits logout; the state moves to logged in only by a successful login
\* and to logged out only by a successful logout or a 401 reply
C7_AuthorizationStateMachine ==
    /\ report.phase = "none" => ~authorized
    /\ report.phase = "reply" /\ report.op \in {"login", "constructor"}
         /\ report.outcome = "resolved"
       => authorized /\ Emitted("login")
    /\ report.phase = "reply" /\ report.op = "logout"
         /\ report.outcome = "resolved"
       => ~authorized /\ Emitted("logout")
    /\ authorized /\ ~report.before
       => report.phase = "reply" /\ report.op \in {"login", "constructor"}
            /\ report.outcome = "resolved"
    /\ ~authorized /\ report.before
       => \/ report.phase = "reply" /\ report.op = "logout"
               /\ report.outcome = "resolved"
          \/ Replied(401)

\* the same for the client's own calls and their replies: in every step
\* that is not the delivery of a channel message the state moves only by a
\* successful login, a successful logout or a 401 reply
C7_CallsAndReplies ==
    /\ report.phase = "none" => ~authorized
    /\ report.phase = "reply" /\ report.op \in {"login", "constructor"}
         /\ report.outcome = "resolved"
       => authorized /\ Emitted("login")
    /\ report.phase = "reply" /\ report.op = "logout"
         /\ report.outcome = "resolved"
       => ~authorized /\ Emitted("logout")
    /\ authorized /\ ~report.before /\ report.phase # "message"
       => report.phase = "reply" /\ report.op \in {"login", "constructor"}
            /\ report.outcome = "resolved"
    /\ ~authorized /\ report.before /\ report.phase # "message"
       => \/ report.phase = "reply" /\ report.op = "logout"
               /\ report.outcome = "resolved"
          \/ Replied(401)

\* a login succeeded after a logout had succeeded while logged in
C7_Witness ==
    /\ report.phase = "reply" /\ report.op = "login"
    /\ report.outcome = "resolved" /\ ~report.before /\ authorized
    /\ socket

\* a logout succeeded while logged in
C7_WitnessLogout ==
    /\ report.phase = "reply" /\ report.op = "logout"
    /\ report.outcome = "resolved" /\ report.before /\ ~authorized

\* C8: a 401 reply rejects with AccessDeniedError, never DubtrackError, and
\* leaves the client logged out; it emits logout exactly when the client was
\* logged in
C8_UnauthorizedReply ==
    Replied(401)
    => /\ report.outcome = "AccessDeniedError"
       /\ ~authorized
       /\ Emitted("logout") <=> report.before

\* a 401 arrived while the client was logged in
C8_Witness == Replied(401) /\ report.before /\ report.op = "return"

\* a 401 arrived while the client was logged out
C8_WitnessLoggedOut == Replied(401) /\ ~report.before

\* everything of the client but the report of the last step
client ==
    << authorized, socket, connection, pending, attaching, oneShot, catching,
       channels,
       handlers, config, pipeline >>

\* C9: a method that requires authentication, called while logged out,
\* rejects at once with AccessDeniedError, sends no request and changes
\* nothing of the client
C9_LoggedOutCallsRejected ==
    [][ report'.phase = "call" /\ report'.op \in AuthorizedOnly /\ ~authorized
        => /\ report'.outcome = "AccessDeniedError"
           /\ report'.sent = 0
           /\ UNCHANGED client ]_vars

\* every one of the methods has been refused: the last one while replies
\* to earlier requests were still awaited
C9_Witness ==
    /\ report.phase = "call" /\ report.op = "readConversation"
    /\ report.outcome = "AccessDeniedError" /\ ~authorized
    /\ pending # EmptyBag

\* C10: join without a room identifier and without a configured room, or
\* while the transport is not connected, fails at once with a FatalError:
\* no room lookup, no channel attached or subscribed, no join emitted
C10_JoinRefused ==
    [][ /\ report'.phase = "call" /\ report'.op = "join"
        /\ \/ ~Truthy(report'.arg) /\ ~Truthy(config.room)
           \/ connection # "connected"
        => /\ instanceof(report'.outcome, "FatalError")
           /\ report'.sent = 0
           /\ UNCHANGED << channels, attaching, handlers, pending >>
           /\ \A i \in DOMAIN report'.emitted : report'.emitted[i] # "join"
      ]_vars

\* "user:u1", the channel of the user the replies to getMe describe
UserChannelName == Chars(<< "u", "s", "e", "r", ":", "u", "1" >>)

\* the subscription to the user's own channel has been started or is done
UserChannelUnderway ==
    \/ UserChannelName \in subscribed
    \/ \E a \in BagToSet(attaching) : a.name = UserChannelName
    \/ BagIn(Request("userChannel"), pending)

\* logged in and the socket connected
BothHold == authorized /\ connection = "connected"

\* C11: the step after which the client is both logged in and connected,
\* whichever of the two came second, starts the subscription to the channel
\* user:<id> unless that subscription is already under way
C11_UserChannelTriggered ==
    [][ ~BothHold /\ BothHold' => UserChannelUnderway' ]_vars

\* the arguments of the calls of one kind the last step made on the transport
Wired(kind) ==
    {report.wire[i].arg :
        i \in {j \in DOMAIN report.wire : report.wire[j].call = kind}}

\* the registered channels whose name starts with "room:"
RoomChannels ==
    {n \in known :
        Len(n.c) >= 5 /\ SubSeq(n.c, 1, 5) = << "r", "o", "o", "m", ":" >>}

\* the last step was the transport reporting `connected`
ConnectedReported == report.phase = "transport" /\ report.op = "connected"

\* C12: when the transport reports connected, every registered channel is
\* attached again, once, presence is entered on exactly the channels named
\* room:..., and all of that precedes the emission of `connected` on the bus
C12_ReattachOnConnected ==
    ConnectedReported
    => /\ Wired("attach") = known
       /\ Wired("enter") = RoomChannels
       /\ Len(report.wire) = Len(channels) + Cardinality(RoomChannels)
       /\ \A i \in DOMAIN report.wire : report.wire[i].at = 0
       /\ Emitted("connected")

\* connected was reported with a room channel and the user channel registered
C12_Witness ==
    /\ ConnectedReported
    /\ RoomChannels # {}
    /\ UserChannelName \in known

\* the login and logout notifications a step emitted
Notifications(r) ==
    Cardinality({i \in DOMAIN r.emitted : r.emitted[i] \in {"login", "logout"}})

\* the token fetches of _updateToken in flight
TokenFetches(p) == CopiesIn(Request("updateToken"), p)

\* the step took the reply of a token fetch of _updateToken
TokenFetchSettled(r) == r.phase = "reply" /\ r.op = "updateToken"

\* every notification of a step starts one token fetch of _updateToken,
\* whatever the authorization flag was or has become
NotificationsFetch ==
    TokenFetches(pending') =
        TokenFetches(pending) + Notifications(report')
            - (IF TokenFetchSettled(report') THEN 1 ELSE 0)

\* the transport calls of one refresh with the credentials of `data`
RefreshCalls(data) ==
    << [call |-> "close", arg |-> Undefined, at |-> 0],
       [call |-> "credentials",
        arg |-> [token |-> data.f.token, clientId |-> data.f.clientId],
        at |-> 0],
       [call |-> "connect", arg |-> Undefined, at |-> 0] >>

\* the reply carries a token: code 200 and an object as data
TokenFetched(r) ==
    /\ TokenFetchSettled(r)
    /\ r.reply.k = "json" /\ r.reply.code = 200
    /\ r.reply.data.k = "object"

\* a token fetch that brings a token closes the socket, stores the fetched
\* token and client id, and connects, in this order and nothing else
RefreshInOrder ==
    TokenFetched(report)
    => /\ report.outcome = "resolved"
       /\ report.wire = RefreshCalls(report.reply.data)

\* C13 as stated: every login and logout notification starts the refresh
C13_EveryNotificationRefreshes ==
    [][NotificationsFetch]_vars /\ []RefreshInOrder

\* C13: every login and logout notification emitted while the socket object
\* exists starts a token fetch, whatever the authorization flag says, and a
\* fetch that brings a token disconnects, replaces token and client id by
\* the fetched ones and reconnects, in this order
C13_NotificationRefreshes ==
    [][socket => NotificationsFetch]_vars /\ []RefreshInOrder

\* a refresh was performed with the renewed token
C13_Witness ==
    /\ TokenFetched(report) /\ report.outcome = "resolved"
    /\ report.reply.data = RawTokenRenewed
    /\ Len(report.wire) = 3

\* a logout notification of a client that was logged out already started a
\* token fetch
C13_WitnessFlagUnchanged ==
    /\ report.phase = "reply" /\ report.op = "logout"
    /\ ~report.before /\ Emitted("logout")
    /\ report.sent = 1 /\ BagIn(Request("updateToken"), pending)

\* the identifier a Role input stands for
RoleIdentifierOf(input) == IF input.k = "object" THEN input.f._id ELSE input

\* the identifier is a key of the role table
InTable(id) == id.k = "string" /\ id.s \in DOMAIN roles \ {"null"}

\* the subject is a Role built from an identifier string, from null, or from
\* a raw role object that carries one of the two
RoleBuilt ==
    /\ subject.ctor = "Role"
    /\ RoleIdentifierOf(subject.input).k \in {"string", "null"}

\* C14: a Role resolves to the table entry of its identifier, to the default
\* entry of type user without rights when the identifier is null or not a key
\* of the table, and is() and hasRight() return a boolean
C14_RoleResolves ==
    RoleBuilt
    => /\ ~subject.threw
       /\ DeepValue(objects, subject.v).f =
              IF InTable(RoleIdentifierOf(subject.input))
              THEN roles[RoleIdentifierOf(subject.input).s]
              ELSE RoleUser
       /\ answer.op \in {"is", "hasRight"} => answer.result.k = "boolean"

\* C15: hasRight(right) is true exactly when the identifier of the role has
\* a table entry whose rights list holds the right; for kick that is true of
\* the moderator and false, not an error, of the resident DJ under either of
\* its two keys
C15_HasRight ==
    RoleBuilt /\ answer.op = "hasRight"
    => LET id == RoleIdentifierOf(subject.input)
           key == IF id.k = "string" THEN id.s ELSE "null"
       IN  /\ answer.result = Bool(TRUE)
                  <=> /\ id.k \in {"string", "null"}
                      /\ key \in DOMAIN roles
                      /\ \E i \in DOMAIN roles[key].rights.items :
                             Str(roles[key].rights.items[i]) = answer.arg
           /\ answer.arg = Str("kick")
              => /\ id = Str("52d1ce33c38a06510c000001")
                        => answer.result = Bool(TRUE)
                 /\ id \in {Str("resident-dj"),
                            Str("5615feb8e596154fc2000002")}
                        => answer.result = Bool(FALSE)

\* the resident DJ, looked up by the alias key, was asked for kick
C15_Witness ==
    /\ RoleBuilt /\ subject.input = Str("resident-dj")
    /\ Get(objects, subject.v.a, "type") = Str("resident-dj")
    /\ answer = [op |-> "hasRight", arg |-> Str("kick"),
                 result |-> Bool(FALSE)]

\* the moderator, built from a raw role object, was asked for kick
C15_WitnessMod ==
    /\ RoleBuilt
    /\ subject.input = Obj([_id |-> Str("52d1ce33c38a06510c000001")])
    /\ Get(objects, subject.v.a, "type") = Str("mod")
    /\ answer = [op |-> "hasRight", arg |-> Str("kick"),
                 result |-> Bool(TRUE)]

\* the subject is a room membership that was built without an embedded user
LazyMembership ==
    /\ subject.ctor = "RoomUser" /\ ~subject.threw
    /\ "_user" \notin DOMAIN subject.input.f

\* the last resolution of the subject's user has succeeded
UserResolved == answer.op = "getUser" /\ answer.result.k = "resolved"

\* the step is one of the subject as it is: it was not constructed anew
SameSubject == subject' = subject /\ answer' # NoAnswer

\* C16: a membership built without an embedded user keeps the user of its
\* first successful resolution, and once a resolution has succeeded no later
\* step of the same membership issues another fetch
C16_ResolveOnce ==
    [][ LazyMembership /\ SameSubject
        => /\ UserResolved' =>
                  Get(objects', subject.v.a, "user") = answer'.result.value
           /\ UserResolved => fetches' = fetches ]_vars

\* the subject is a conversation; its participants were listed by identifier
ConversationBuilt == subject.ctor = "Conversation" /\ ~subject.threw

ListedByIdentifier ==
    /\ ConversationBuilt
    /\ subject.input.f.usersid.items # << >>
    /\ subject.input.f.usersid.items[1].k = "string"

\* the users and userIds fields of the subject
UsersOf(h) == Get(h, subject.v.a, "users")

UserIdsOf(h) == Get(h, subject.v.a, "userIds").items

\* users, once there, holds one user per identifier, in the order of userIds
UsersInOrder ==
    ConversationBuilt /\ UsersOf(objects) # Null
    => /\ Len(UsersOf(objects).items) = Len(UserIdsOf(objects))
       /\ \A i \in DOMAIN UserIdsOf(objects) :
              /\ objects[UsersOf(objects).items[i].a].cls = "User"
              /\ Get(objects, UsersOf(objects).items[i].a, "id")
                     = UserIdsOf(objects)[i]

\* a conversation listed by identifier starts with users null
NullUntilResolved ==
    ListedByIdentifier /\ answer = NoAnswer => UsersOf(objects) = Null

\* what a step of a conversation may do: users changes only when a whole
\* resolution succeeds, and then to its result; a failed one leaves it; a
\* call made while users is null fetches every participant at once; a call
\* made on users that are there returns them and fetches nothing
ResolveAllOrNothing ==
    ConversationBuilt /\ SameSubject
    => /\ UsersOf(objects') # UsersOf(objects)
          => /\ answer'.op = "getUsers" /\ answer'.result.k = "resolved"
             /\ answer'.result.value = UsersOf(objects')
             /\ lookups' # lookups
       /\ answer'.result.k = "rejected" => UsersOf(objects') = UsersOf(objects)
       /\ fetches' # fetches
          => /\ UsersOf(objects) = Null
             /\ fetches' = fetches + Len(UserIdsOf(objects))
             /\ answer'.result.k = "pending"
       /\ UsersOf(objects) # Null /\ answer' # answer /\ lookups' = lookups
          => /\ answer'.result = Resolved(UsersOf(objects))
             /\ fetches' = fetches

\* C17: a conversation listed by identifier has users null until a whole
\* resolution succeeds; resolving fetches all participants at once; a failed
\* fetch fails the resolution and stores nothing; success stores the users in
\* the order of userIds; embedded users are returned without a fetch
C17_ResolveUsers ==
    [](NullUntilResolved /\ UsersInOrder) /\ [][ResolveAllOrNothing]_vars

\* two participants listed by identifier have been resolved
C17_Witness ==
    /\ ListedByIdentifier
    /\ answer.op = "getUsers" /\ answer.result.k = "resolved"
    /\ fetches >= 2
    /\ Len(UsersOf(objects).items) = 2
    /\ UserIdsOf(objects) = << Str("u2"), Str("u1") >>

\* a fetch failed after another one of the same resolution had succeeded
C17_WitnessFailed ==
    /\ ListedByIdentifier
    /\ answer.op = "getUsers" /\ answer.result.k = "rejected"
    /\ UsersOf(objects) = Null
    /\ \E a \in DOMAIN objects : objects[a].cls = "User"

\* embedded users were returned without a fetch
C17_WitnessEmbedded ==
    /\ ConversationBuilt /\ ~ListedByIdentifier
    /\ answer.op = "getUsers" /\ answer.result.k = "resolved"
    /\ fetches = 0
    /\ Len(UsersOf(objects).items) = 2

\* the value the constructor derives for a typed field from the raw input
Derived(ctor, input, name) ==
    CASE name = "id" -> Field(input, "_id")
      [] name = "created" -> NewDate(Field(input, "created"))
      [] name = "updated" -> NewDate(Field(input, "updated"))
      [] name = "lastLogin" ->
             IF Truthy(Field(input, "_force_updated"))
             THEN NewDate(Field(input, "_force_updated")) ELSE Null
      [] name = "thumbnail" -> Field(Field(input, "images"), "thumbnail")
      [] name = "roomId" -> Field(input, "roomid")
      [] name = "userId" -> Field(input, "userid")
      [] OTHER -> Undefined

\* the typed field of the subject holds what the constructor derived: the
\* derived scalar, or the model object built from the raw sub-object
HoldsDerived(name) ==
    LET held == Get(objects, subject.v.a, name)
    IN  CASE name = "role" -> held.k = "ref" /\ objects[held.a].cls = "Role"
          [] name = "user" ->
                 IF subject.ctor = "RoomUser" /\ "_user" \notin DOMAIN subject.input.f
                 THEN held = Null
                 ELSE held.k = "ref" /\ objects[held.a].cls = "User"
          [] OTHER -> held = Derived(subject.ctor, subject.input, name)

\* C18: after construction every explicitly typed field holds the value the
\* constructor derived for it, whatever keys the raw object has
C18_TypedFieldsWin ==
    subject.ctor \in DOMAIN TypedFields /\ ~subject.threw
    => \A name \in TypedFields[subject.ctor] : HoldsDerived(name)

\* the error JSON.parse throws on the body of Garbled
ParseError ==
    Err("SyntaxError", << Str("Unexpected token < in JSON at position 0") >>,
        Undefined, Undefined)

\* the last step took the reply to a request
ReplyTaken == report.phase = "reply"

\* C19: a reply with code 200 resolves with its data; a 401 rejects with an
\* access-denied error; another code rejects with a service error that has
\* the code and the data of the response; a body that cannot be parsed and a
\* request that fails reject with a fatal error that has the message of the
\* error that occurred
C19_TypedFailures ==
    ReplyTaken
    => CASE report.reply.k = "none" ->
                /\ report.rejection.cls = "FatalError"
                /\ report.rejection.message = RequestError.message
         [] report.reply.k = "text" ->
                /\ report.rejection.cls = "FatalError"
                /\ report.rejection.message = ParseError.message
         [] report.reply.code = 200 ->
                /\ report.rejection = Undefined
                /\ report.value = report.reply.data
         [] report.reply.code = 401 ->
                report.rejection.cls = "AccessDeniedError"
         [] OTHER ->
                /\ report.rejection.cls = "DubtrackError"
                /\ report.rejection.code = Num(report.reply.code)
                /\ report.rejection.data = report.reply.data

\* the same without the message of the fatal error for an unparsable body
C19_ExceptParseMessage ==
    ReplyTaken /\ report.reply.k # "text" => C19_TypedFailures

\* an event was processed with the raw option on
RawProcessed == event # 0 /\ options.raw /\ ~threw

\* the event handed to the listeners is the received object, untouched: the
\* same fields with the same values, no raw field, and no object built
Untouched ==
    /\ DeepValue(heap, Ref(event)) = received
    /\ heap = AllocTree(<< >>, received).h
    /\ "raw" \notin DOMAIN heap[event].f

\* every exact-name listener of the type was called once
ExactDelivered ==
    \A i \in 1..Len(exactListeners) :
        Cardinality(ExactCallsOf(i)) =
            IF exactListeners[i].name = TypeOf(received) THEN 1 ELSE 0

\* the pattern listeners whose pattern matches the type were called, in the
\* order of registration; only the first of them with onlyFirstMatch
PatternDelivered ==
    LET matching == SelectSeq([i \in 1..Len(regexpListeners) |-> i],
                              LAMBDA i : i \in MatchingRegistrations)
    IN  PatternCallIndexes =
            IF options.onlyFirstMatch /\ matching # << >>
            THEN << Head(matching) >> ELSE matching

\* an HTTP call hands back the data of the response when raw is requested by
\* the call or by the client, and a model otherwise
HttpRaw ==
    \A callRaw \in BOOLEAN : \A data \in {RawUser1, RawUser2} :
        LET got == getUser(data, [raw |-> callRaw], options)
        IN  /\ ~got.threw
            /\ callRaw \/ options.raw => got.value = data
            /\ ~(callRaw \/ options.raw) => got.value.cls = "User"

\* C20: with raw on, the event is handed to the listeners as received and
\* reaches the matching pattern listeners and the exact-name listeners; an
\* HTTP call returns the response data when raw is requested
C20_RawBypass ==
    /\ HttpRaw
    /\ RawProcessed => Untouched /\ ExactDelivered /\ PatternDelivered

\* the same for patterns without the flags g and y
C20_StatelessPatterns ==
    /\ HttpRaw
    /\ RawProcessed
       => /\ Untouched /\ ExactDelivered
          /\ (\A i \in 1..Len(regexpListeners) :
                 lastIndex[regexpListeners[i].regexp] = 0
                 /\ flags(regexpListeners[i].regexp) \cap {"g", "y"} = {})
             => PatternDelivered

-----------------------------------------------------------------------------
(* Pattern selection and iteration (SpecDispatch)                          *)

\* the calls processEvents made to the pattern registration i
PatternCallsOf(i) ==
    {j \in 1..Len(calls) : calls[j].kind = "pattern" /\ calls[j].index = i}

\* onlyFirstMatch ended the loop at a registration before i
StoppedBefore(i) ==
    options.onlyFirstMatch /\ \E j \in 1..(i - 1) : PatternCallsOf(j) # {}

\* str begins with prefix
StartsWith(str, prefix) ==
    Len(prefix) <= Len(str) /\ SubSeq(str, 1, Len(prefix)) = prefix

\* the registrations of the pattern /^user-update/
PrefixRegistrations ==
    {i \in 1..Len(regexpListeners) : regexpListeners[i].regexp = "ReA"}

\* C21: a listener registered with /^user-update/ is called (once) for an
\* event whose type begins with user-update, such as user-update-123, and is
\* not called for a type that only contains it, such as other-user-update,
\* whichever normalization rule the type fell under; a listener behind one
\* that onlyFirstMatch stopped at is not reached.
C21_PrefixPattern ==
    (event # 0 /\ ~threw) =>
        \A i \in PrefixRegistrations :
            Cardinality(PatternCallsOf(i)) =
                IF StartsWith(TypeOf(received), S_user_update)
                   /\ ~StoppedBefore(i)
                THEN 1 ELSE 0

\* a user-update-123 event reached a /^user-update/ listener
C21_Witness ==
    /\ event # 0 /\ ~threw
    /\ TypeOf(received) = S_user_update_123
    /\ \E i \in PrefixRegistrations : Cardinality(PatternCallsOf(i)) = 1

\* an other-user-update event, normalized by the user-update rule, was kept
\* from a /^user-update/ listener and handed to another listener
C21_WitnessRejected ==
    /\ event # 0 /\ ~threw /\ ~options.raw
    /\ TypeOf(received) = S_other_user_update
    /\ heap[Get(heap, event, "user").a].cls = "User"
    /\ \E i \in PrefixRegistrations : PatternCallsOf(i) = {}
    /\ calls # << >>

\* the calls the dispatch of this step made to the registration that was at
\* position k of the list when the dispatch began
OriginCalls(k) ==
    {j \in 1..Len(calls') :
        calls'[j].kind = "pattern" /\ calls'[j].origin = k}

\* the starting positions of the registrations removed during the dispatch
RemovedInDispatch ==
    {calls'[j].removed :
        j \in {i \in 1..Len(calls') : calls'[i].kind = "pattern"}} \ {-1}

\* C22: when callbacks add or remove pattern registrations during a
\* dispatch (onlyFirstMatch off), every registration that was in the list
\* when the dispatch began, matches the type and was not removed during the
\* dispatch is called exactly once, and no registration is called twice.
C22_IterationNotCorrupted ==
    [][(received' # Undefined /\ ~threw' /\ ~options.onlyFirstMatch) =>
          \A k \in 1..Len(regexpListeners) :
              /\ Cardinality(OriginCalls(k)) <= 1
              /\ (Accepts(regexpListeners[k].regexp, TypeOf(received'))
                  /\ k \notin RemovedInDispatch)
                 => Cardinality(OriginCalls(k)) = 1]_vars

\* the same for dispatches in which no registration is removed: additions
\* made by a callback do not disturb the iteration
C22_AdditionsOnly ==
    [][(received' # Undefined /\ ~threw' /\ ~options.onlyFirstMatch
        /\ RemovedInDispatch = {}) =>
          \A k \in 1..Len(regexpListeners) :
              Cardinality(OriginCalls(k)) =
                  IF Accepts(regexpListeners[k].regexp, TypeOf(received'))
                  THEN 1 ELSE 0]_vars

\* the first registration of the list whose pattern accepts the type of the
\* event: nothing called before it in the same dispatch has touched its
\* RegExp object
FirstMatching ==
    {i \in MatchingRegistrations :
        \A j \in MatchingRegistrations : i <= j}

\* C23: whatever events were dispatched before, a pattern listener whose
\* pattern matches the type of the event is called for it, patterns with the
\* g or y flag included (stated for the first matching registration, which
\* onlyFirstMatch does not hold back).
C23_NoStateAcrossDispatches ==
    (event # 0 /\ ~threw) =>
        \A i \in FirstMatching : Cardinality(PatternCallsOf(i)) = 1

-----------------------------------------------------------------------------
(* One classification rule per event (Spec)                                *)

\* the room membership the constructor builds from a written-out raw object
RoomUserOf(rawUser) ==
    LET parsed == AllocTree(<< >>, rawUser)
        built == NewRoomUser(parsed.h, parsed.v)
    IN  DeepValue(built.h, built.v)

\* the user field of the dispatched event, written out
UserField == DeepValue(heap, Get(heap, event, "user"))

\* what one rule can leave in the user field: the received value, or one
\* typed object built from a received sub-object
WrappedOnce ==
    {received.f[n] : n \in DOMAIN received.f \cap {"user"}}
    \cup {UserOf(received.f[n]) :
             n \in DOMAIN received.f \cap {"user", "kickedUser"}}
    \cup {RoomUserOf(received.f[n]) : n \in DOMAIN received.f \cap {"user"}}

\* C24: one rule transforms the event, the first that matches: a type that
\* contains user-update gets user as a User built from the received user,
\* also when it contains user_update; a type that contains user_update and
\* matches no earlier rule gets user as a room membership built from the
\* received user; the user field is never built from an object that was
\* already wrapped.
C24_FirstRuleOnly ==
    Fresh =>
        /\ includes(TypeOf(received), S_user_update)
           => /\ heap[Get(heap, event, "user").a].cls = "User"
              /\ UserField = UserOf(received.f.user)
        /\ (/\ includes(TypeOf(received), S_user_update_us)
            /\ ~includes(TypeOf(received), S_user_update)
            /\ TypeOf(received) \notin ExactRuleTypes)
           => /\ heap[Get(heap, event, "user").a].cls = "RoomUser"
              /\ UserField = RoomUserOf(received.f.user)
        /\ "user" \in DOMAIN heap[event].f => UserField \in WrappedOnce

\* an event whose type contains user_update and user-update was dispatched
\* with a User
C24_Witness ==
    /\ Fresh
    /\ TypeOf(received) = S_user_update_both
    /\ heap[Get(heap, event, "user").a].cls = "User"
    /\ calls # << >>

\* an event whose type contains only user_update was dispatched with a room
\* membership
C24_WitnessMembership ==
    /\ Fresh
    /\ TypeOf(received) = S_user_update_us_456
    /\ heap[Get(heap, event, "user").a].cls = "RoomUser"
    /\ calls # << >>

-----------------------------------------------------------------------------
(* Order of the calls of one dispatch (SpecDispatch)                       *)

\* the positions in the call sequence of the calls of one kind
CallsOfKind(kind) == {j \in 1..Len(calls) : calls[j].kind = kind}

\* C25: within one dispatch the pattern listeners that are called are
\* called in registration order and only for a type their pattern accepts;
\* the exact-name listeners of the type are called after every pattern call;
\* every call is handed the same event object, which with raw off carries
\* the received event in its raw field.
C25_DispatchOrder ==
    (event # 0 /\ ~threw) =>
        /\ \A j, k \in CallsOfKind("pattern") :
              j < k => calls[j].index < calls[k].index
        /\ \A j \in CallsOfKind("pattern") :
              Accepts(calls[j].regexp, TypeOf(received))
        /\ \A j \in CallsOfKind("pattern"), k \in CallsOfKind("exact") : j < k
        /\ \A k \in CallsOfKind("exact") : calls[k].name = TypeOf(received)
        /\ \A j \in 1..Len(calls) : calls[j].event = event
        /\ ~options.raw =>
              DeepValue(heap, Get(heap, event, "raw")) = received

\* two pattern listeners and an exact-name listener were called for one
\* normalized event
C25_Witness ==
    /\ event # 0 /\ ~threw /\ ~options.raw
    /\ Cardinality(CallsOfKind("pattern")) = 2
    /\ Cardinality(CallsOfKind("exact")) = 1

-----------------------------------------------------------------------------
(* Events that lack a field (SpecIncomplete)                               *)

\* C26: processEvents returns normally for every event a channel handler
\* hands it, an event without a type and an event of a recognized type
\* without its sub-object included.
C26_PipelineDoesNotRaise == event # 0 => ~threw

\* with raw on nothing is read from the event but its type, and
\* processEvents returns normally for each of these events
C26_RawDoesNotRaise == (event # 0 /\ options.raw) => ~threw

-----------------------------------------------------------------------------
(* Failures of the automatic operations (SpecBackground)                   *)

\* the last step emitted `error`
ErrorEmitted == \E i \in DOMAIN report.emitted : report.emitted[i] = "error"

\* the last step ended an automatic operation in failure: the automatic
\* join refused or failed, or the reply or the attach of the user's channel
\* or the reply of the token refresh failed
BackgroundFailure ==
    \/ /\ report.phase \in {"reply", "attached"}
       /\ report.op \in {"autoJoin", "userChannel", "updateToken"}
       /\ report.outcome \notin {"resolved", "pending", "none"}
    \/ report.phase = "caught" /\ report.op = "autoJoin"

\* a listener was registered under `error` when the last step was taken
ErrorListened == report.listening > 0

\* C28: the failure of an automatic operation is emitted as `error` when a
\* listener is registered for it and logged otherwise; it is never left as
\* an unhandled rejection, and `error` is never emitted without a listener.
C28_BackgroundFailuresRouted ==
    /\ ErrorEmitted => ErrorListened
    /\ BackgroundFailure =>
          /\ report.unhandled = << >>
          /\ IF ErrorListened
             THEN ErrorEmitted /\ report.errors = << >>
             ELSE ~ErrorEmitted /\ report.errors # << >>

\* the same for the automatic join alone, the one chain that ends in a
\* rejection handler
C28_AutoJoinFailuresRouted ==
    /\ ErrorEmitted => ErrorListened
    /\ (BackgroundFailure /\ report.op = "autoJoin") =>
          /\ report.unhandled = << >>
          /\ IF ErrorListened
             THEN ErrorEmitted /\ report.errors = << >>
             ELSE ~ErrorEmitted /\ report.errors # << >>

-----------------------------------------------------------------------------
(* Teardown of channels (SpecChannels)                                     *)

\* a join is under way: its room lookup or its attach has not come back
JoinUnderway ==
    \/ \E r \in BagToSet(pending) : r.then \in {"join", "autoJoin"}
    \/ \E a \in BagToSet(attaching) : a.then \in {"join", "autoJoin"}
    \/ "join" \in oneShot

\* the last step was a leave that succeeded
LeaveSucceeded ==
    report.phase = "reply" /\ report.op = "leave"
    /\ report.outcome = "resolved"

\* the last step was a disconnect that closed the transport
DisconnectDone ==
    report.phase = "call" /\ report.op = "disconnect"
    /\ report.outcome = "undefined"

\* the next step dispatches a message of a room channel
RoomMessage ==
    report'.phase = "message" /\ report'.arg \in RoomChannels

\* C29: after a leave that succeeded and after a disconnect, with no join
\* under way, no room channel is left that has a subscribe handler and is
\* among the channels the next connect attaches again, and the step after a
\* leave that succeeded does not dispatch a message of a room channel.
C29_ChannelTornDown ==
    /\ [][(LeaveSucceeded /\ ~JoinUnderway) => ~RoomMessage]_vars
    /\ []((LeaveSucceeded \/ DisconnectDone) /\ ~JoinUnderway
             => \A name \in RoomChannels : name \notin subscribed)

\* what does hold: while the transport is closed no message is dispatched
C29_ClosedIsSilent ==
    [][(connection \in {"closed", "none"}) => (report'.phase # "message")]_vars

\* the step is the reply to the room lookup of a join, arriving after a
\* disconnect closed the transport
LookupRepliedAfterDisconnect ==
    /\ connection = "closed"
    /\ report'.phase = "reply"
    /\ report'.op \in {"join", "autoJoin"}

\* C30: a join whose room lookup completes after a disconnect closed the
\* transport does not register, attach or subscribe the room's channel.
C30_DisconnectCancelsAttachment ==
    [][LookupRepliedAfterDisconnect
         => (/\ channels' = channels
             /\ attaching' = attaching
             /\ handlers' = handlers)]_vars

\* a lookup that fails after the disconnect leaves the channels alone
C30_FailedLookupAttachesNothing ==
    [][(LookupRepliedAfterDisconnect /\ report'.outcome # "pending")
         => (/\ channels' = channels
             /\ attaching' = attaching
             /\ handlers' = handlers)]_vars

-----------------------------------------------------------------------------
(* Concurrent resolutions (SpecLazy)                                       *)

\* the subject resolves lazily: a membership without an embedded user or a
\* conversation whose participants were listed by identifier
LazySubject == LazyMembership \/ ListedByIdentifier

\* what the subject holds of its resolved users
CachedOf(h) ==
    IF subject.ctor = "Conversation" THEN UsersOf(h)
    ELSE Get(h, subject.v.a, "user")

\* the identifiers a resolution of the subject fetches
IdsOf(h) ==
    IF subject.ctor = "Conversation" THEN UserIdsOf(h)
    ELSE << Get(h, subject.v.a, "userId") >>

\* C31: resolutions of one entity are not deduplicated: a call made while
\* nothing is cached issues one fetch per identifier, also while an earlier
\* call is still waiting; the result of the first resolution of a
\* conversation that succeeds is cached, and what an entity has cached is not
\* replaced by a later completion.
C31_FirstSuccessCached ==
    [][ LazySubject /\ SameSubject
        => /\ (~Truthy(CachedOf(objects)) /\ answer'.result.k = "pending"
                 /\ answer' # answer)
              => fetches' = fetches + Len(IdsOf(objects))
           /\ (ListedByIdentifier /\ ~Truthy(CachedOf(objects))
                 /\ lookups' # lookups /\ answer'.result.k = "resolved")
              => CachedOf(objects') = answer'.result.value
           /\ Truthy(CachedOf(objects))
              => CachedOf(objects') = CachedOf(objects) ]_vars

\* concurrent calls each issue their fetches, and a first success is cached
C31_NotDeduplicated ==
    [][ LazySubject /\ SameSubject
        => /\ (~Truthy(CachedOf(objects)) /\ answer'.result.k = "pending"
                 /\ answer' # answer)
              => fetches' = fetches + Len(IdsOf(objects))
           /\ (ListedByIdentifier /\ ~Truthy(CachedOf(objects))
                 /\ lookups' # lookups /\ answer'.result.k = "resolved")
              => CachedOf(objects') = answer'.result.value ]_vars

-----------------------------------------------------------------------------
(* Listeners that throw (SpecThrowing)                                     *)

\* the exact-name registrations of the type of the received event
ExactRegistrations ==
    {i \in 1..Len(exactListeners) : exactListeners[i].name = TypeOf(received)}

\* a listener threw during the dispatch
ListenerThrew == event # 0 /\ Thrown(calls)

\* C32: in one dispatch every pattern registration whose pattern accepts
\* the type is called, unless onlyFirstMatch stopped at an earlier one, and
\* every exact-name listener of the type is called, whether or not a
\* listener called before it threw.
C32_ListenersIsolated ==
    event # 0 =>
        /\ \A i \in 1..Len(regexpListeners) :
              (Accepts(regexpListeners[i].regexp, TypeOf(received))
                 /\ ~StoppedBefore(i))
              => PatternCallsOf(i) # {}
        /\ \A i \in ExactRegistrations : ExactCallsOf(i) # {}

\* where no listener threw, every listener of the pass was called
C32_AllCalledUnlessThrown ==
    (event # 0 /\ ~ListenerThrew) =>
        /\ \A i \in 1..Len(regexpListeners) :
              (Accepts(regexpListeners[i].regexp, TypeOf(received))
                 /\ ~StoppedBefore(i))
              => PatternCallsOf(i) # {}
        /\ \A i \in ExactRegistrations : ExactCallsOf(i) # {}

-----------------------------------------------------------------------------
(* Events received from the socket (SpecReceived)                          *)

\* the step handed a received event to processEvents
Received == report'.phase = "message"

\* C33: isAuthorized() changes only in the step of a reply (a login or a
\* logout that succeeded, or a 401); the step that dispatches an event
\* received from the socket, whatever its type, leaves it as it was and
\* sends no token request.
C33_EventsDoNotAuthorize ==
    [][ /\ authorized' # authorized
           => /\ report'.phase = "reply"
              /\ \/ report'.op \in {"login", "constructor", "logout"}
                      /\ report'.outcome = "resolved"
                 \/ report'.reply.k = "json" /\ report'.reply.code = 401
        /\ Received => (authorized' = authorized /\ report'.sent = 0) ]_vars

\* an event of any other type leaves the authorization as it was
C33_OtherTypesDoNotAuthorize ==
    [][ (Received /\ TypeOf(received') \notin {S_login, S_logout})
        => (authorized' = authorized /\ report'.sent = 0) ]_vars

-----------------------------------------------------------------------------
(* Joining a room again (SpecRejoin)                                       *)

\* the last step dispatched an event a room channel delivered
RoomEventDispatched ==
    report.phase = "message" /\ report.arg \in RoomChannels /\ event # 0

\* C34: an event a room channel delivers is handed to every listener of its
\* type exactly once, and what the listeners are handed is the event
\* normalized once: its raw field holds the event as it was received.
C34_DispatchedOnce ==
    RoomEventDispatched =>
        \A i \in ExactRegistrations :
            /\ Cardinality(ExactCallsOf(i)) = 1
            /\ DeepValue(heap, Get(heap, event, "raw")) = received

\* an event of a room joined once is handed to the listener once
C34_JoinedOnce ==
    (RoomEventDispatched /\ CopiesIn(report.arg, handlers) = 1) =>
        \A i \in ExactRegistrations :
            /\ Cardinality(ExactCallsOf(i)) = 1
            /\ DeepValue(heap, Get(heap, event, "raw")) = received

-----------------------------------------------------------------------------
(* Overlapping token fetches (SpecAuth)                                    *)

\* token and client id as _updateToken stores them
Credentials(data) == [token |-> data.f.token, clientId |-> data.f.clientId]

\* the step r reports stored the credentials c on the socket
Installed(r, c) ==
    \E i \in DOMAIN r.wire :
        r.wire[i].call = "credentials" /\ r.wire[i].arg = c

\* C35: of two token fetches that overlap, the service answering the earlier
\* one with RawToken and the later one with RawTokenRenewed, the credentials
\* of the later one stay on the socket: once they are installed while the
\* other fetch is still in flight, the completion of that fetch does not
\* install the older credentials over them.
C35_LatestTokenInstalled ==
    [][ (Installed(report, Credentials(RawTokenRenewed))
           /\ TokenFetches(pending) > 0
           /\ TokenFetchSettled(report'))
        => ~Installed(report', Credentials(RawToken)) ]_vars

\* replies that arrive in the order of the fetches leave the later token
C35_InOrderKeepsLatest ==
    [][ (Installed(report, Credentials(RawToken))
           /\ TokenFetches(pending) > 0
           /\ TokenFetchSettled(report') /\ report'.outcome = "resolved"
           /\ report'.reply.data = RawTokenRenewed)
        => /\ Installed(report', Credentials(RawTokenRenewed))
           /\ connection' = "connecting" ]_vars

-----------------------------------------------------------------------------
(* Notifications and state changes (SpecAuth)                              *)

\* the step emitted the notification `name`
Notified(name) ==
    \E i \in DOMAIN report'.emitted : report'.emitted[i] = name

\* C36: a login notification is emitted only by a step that takes
\* isAuthorized() from false to true, a logout notification only by a step
\* that takes it from true to false; a step that leaves the flag as it was
\* emits neither and starts no token fetch.
C36_NotificationsOnChange ==
    [][ /\ Notified("login") => (~authorized /\ authorized')
        /\ Notified("logout") => (authorized /\ ~authorized')
        /\ (authorized' = authorized /\ report'.phase = "reply"
              /\ report'.op \in {"login", "logout"})
           => TokenFetches(pending') = TokenFetches(pending) ]_vars

\* the logout notification of a 401 reply is emitted only on a change
C36_UnauthorizedOnChange ==
    [][ (Notified("logout") /\ report'.phase = "reply"
           /\ report'.reply.k = "json" /\ report'.reply.code = 401)
        => (authorized /\ ~authorized') ]_vars

-----------------------------------------------------------------------------
(* Notifications caused by 401 replies (SpecAuth)                          *)

\* the step took a 401 reply
Unauthorized ==
    report'.phase = "reply" /\ report'.reply.k = "json"
    /\ report'.reply.code = 401

\* C37: a 401 reply emits a logout notification only when it takes the
\* client from logged in to logged out, and the client gets logged in again
\* only by a login that succeeds, so that between two such logins at most
\* one 401 emits; a 401 that reaches the logged-out client, the one answering
\* the token fetch of that notification included, emits nothing and sends
\* nothing, and one that emits starts at most the one token fetch.
C37_UnauthorizedChainEnds ==
    [][ /\ (Unauthorized /\ Notified("logout")) => (authorized /\ ~authorized')
        /\ (~authorized /\ authorized')
           => /\ report'.phase = "reply"
              /\ report'.op \in {"login", "constructor"}
              /\ report'.outcome = "resolved"
        /\ (Unauthorized /\ ~authorized)
           => /\ report'.emitted = << >>
              /\ report'.sent = 0
              /\ BagCardinality(pending') = BagCardinality(pending) - 1
        /\ (Unauthorized /\ authorized)
           => /\ Notifications(report') = 1
              /\ report'.sent = (IF socket THEN 1 ELSE 0) ]_vars

\* what does hold: a 401 emits only on the change to logged out, one that
\* reaches the logged-out client emits and sends nothing, and one that emits
\* starts at most the one token fetch
C37_UnauthorizedEmitsOnce ==
    [][ /\ (Unauthorized /\ Notified("logout")) => (authorized /\ ~authorized')
        /\ (Unauthorized /\ ~authorized)
           => /\ report'.emitted = << >>
              /\ report'.sent = 0
              /\ BagCardinality(pending') = BagCardinality(pending) - 1
        /\ (Unauthorized /\ authorized)
           => /\ Notifications(report') = 1
              /\ report'.sent = (IF socket THEN 1 ELSE 0) ]_vars

\* the token fetch of the refresh was answered 401 while the client was
\* logged out, and nothing is in flight any more
C37_Witness ==
    /\ TokenFetchSettled(report) /\ Replied(401)
    /\ ~report.before /\ ~authorized /\ socket
    /\ report.emitted = << >>
    /\ pending = EmptyBag

-----------------------------------------------------------------------------
(* Guards of connect() and disconnect() (SpecChannels)                     *)

\* the step was a call of the given operation of the client
Called(op) == report'.phase = "call" /\ report'.op = op

\* the transport calls of the given kind made by the step
TransportCalls(kind) ==
    {i \in DOMAIN report'.wire : report'.wire[i].call = kind}

\* C38: connect() on a connected client fails with FatalError and does not
\* call the transport's connect; disconnect() on a client that is not
\* connected fails with FatalError and does not close the transport.
C38_GuardsRefuse ==
    [][ /\ (Called("connect") /\ socket /\ connection = "connected")
           => /\ report'.outcome = "FatalError"
              /\ TransportCalls("connect") = {}
        /\ (Called("disconnect") /\ socket /\ connection # "connected")
           => /\ report'.outcome = "FatalError"
              /\ TransportCalls("close") = {}
              /\ connection' = connection ]_vars

\* what the guards do instead: the rejected promise is created and dropped,
\* the call returns undefined, and the transport is called all the same
C38_GuardsDropTheError ==
    [][ /\ (Called("connect") /\ socket)
           => /\ report'.outcome = "undefined"
              /\ Cardinality(TransportCalls("connect")) = 1
              /\ report'.discarded =
                     IF connection = "connected" THEN << "FatalError" >>
                     ELSE << >>
        /\ (Called("disconnect") /\ socket)
           => /\ report'.outcome = "undefined"
              /\ Cardinality(TransportCalls("close")) = 1
              /\ connection' = "closed"
              /\ report'.discarded =
                     IF connection = "connected" THEN << >>
                     ELSE << "FatalError" >> ]_vars

-----------------------------------------------------------------------------
(* The name of the user's channel (SpecUserChannel)                        *)

\* "user:undefined"
UndefinedUserChannel == Chars(S_user_prefix \o S_undefined)

\* the names the client has asked the transport for, attached or not
Requested ==
    known \cup subscribed \cup {a.name : a \in BagToSet(attaching)}

\* the channel begins with "user:"
IsUserChannel(name) ==
    /\ Len(name.c) >= Len(S_user_prefix)
    /\ SubSeq(name.c, 1, Len(S_user_prefix)) = S_user_prefix

\* C39: whatever the global raw option, the channel the client subscribes to
\* for the logged-in user is user:<id> with the id of the user the service
\* describes, never user:undefined.
C39_UserChannelHasId ==
    \A name \in Requested : IsUserChannel(name) => name = UserChannelName

\* with the global raw option off the channel is user:<id>
C39_ModelledUserHasId ==
    ~options.raw =>
        \A name \in Requested : IsUserChannel(name) => name = UserChannelName

\* with the global raw option on the channel is user:undefined
C39_RawUserHasNoId ==
    options.raw =>
        \A name \in Requested :
            IsUserChannel(name) => name = UndefinedUserChannel

-----------------------------------------------------------------------------
(* Removal among registrations of one pattern (SpecRegistry)               *)

\* the list without its entry at position i
Without(listeners, i) ==
    [k \in 1..(Len(listeners) - 1) |-> listeners[IF k < i THEN k ELSE k + 1]]

\* the registrations equal to the pattern of the removal that hold the
\* callback handed in with it
HeldRegistrations ==
    {i \in EqualRegistrations :
        removal.before[i].listener = removal.listener}

\* the removal met several registrations of its pattern holding different
\* callbacks
SeveralCallbacks ==
    /\ removal.done
    /\ Cardinality({removal.before[i].listener : i \in EqualRegistrations}) > 1

\* C40: among several registrations of one source and flags that hold
\* different callbacks, a removal with the pattern and a callback takes out
\* exactly one registration, one that holds that callback, and leaves the
\* others in their order; a registration of another callback is never
\* taken out.
C40_RemovesHeldCallback ==
    SeveralCallbacks =>
        IF HeldRegistrations = {}
        THEN regexpListeners = removal.before
        ELSE \E i \in HeldRegistrations :
                regexpListeners = Without(removal.before, i)

\* what the removal does there: it takes out the first registration of the
\* pattern, whichever callback was handed in
C40_CallbackIgnored ==
    SeveralCallbacks =>
        /\ \E i \in EqualRegistrations :
              /\ \A j \in EqualRegistrations : i <= j
              /\ regexpListeners = Without(removal.before, i)
        /\ \A listener \in Callbacks :
              regexpListeners =
                  removeRegexpListener(removal.before, removal.regexp, listener)

=============================================================================
